---- MODULE Spec2Model ----
(***************************************************************************)
(* Subreddit scraper of the creator platform: the server-side              *)
(* SubredditScraper (backend/src/services/subredditScraper.js), the        *)
(* browser-side ClientSubredditScraper (src/lib/clientSubredditScraper.js) *)
(* with the public Reddit client and the IndexedDB store it writes to.     *)
(*                                                                         *)
(* Text is a sequence of one-character strings, so that the regular        *)
(* expressions of parseRules and the substring tests of inferNicheTags are *)
(* evaluated character by character.  A JavaScript null or undefined is    *)
(* the empty tuple, a present value v is the one-element tuple <<v>>.      *)
(* Numbers produced by a division are exact fractions, NaN, or undefined.  *)
(***************************************************************************)
EXTENDS Integers, Sequences, FiniteSets, TLC

VARIABLES
  runtime,    \* "server" (SubredditScraper) or "client" (ClientSubredditScraper)
  tz,         \* hours the process's local time is ahead of UTC (Date#getDay/getHours)
  sink,       \* the subreddits table / object store: sequence of stored profiles
  ret,        \* outcome of the latest scrapeSubreddit call
  bNames,     \* scrapeMultiple: subredditNames
  bIdx,       \* scrapeMultiple: loop index i (0-based)
  bPc,        \* scrapeMultiple: position of the driver
  results,    \* scrapeMultiple: { success: [], failed: [] }
  started,    \* scrapeMultiple: list positions whose scrape was started, in order
  nFinished,  \* scrapeMultiple: number of scrapes that returned or threw
  nDelays,    \* scrapeMultiple: number of inter-request delays that elapsed
  arg,        \* derivation functions: the input of the call
  srvOut,     \* derivation functions: result of the server-side implementation
  cliOut,     \* derivation functions: result of the browser-side implementation
  backendUp,          \* environment: a fetch to BACKEND_URL gets an answer right now
  backendAvailable,   \* DataService.backendAvailable: Null until checkBackend, then Some(boolean)
  user_subreddits,    \* backend: rows of the table user_subreddits
  tracked_subreddits, \* browser: entries of the object store tracked_subreddits
  opOut,              \* DataService: outcome of the latest data operation
  now,                \* PublicRedditClient: Date.now(), in milliseconds
  lastRequestTime,    \* PublicRedditClient.lastRequestTime
  callers,            \* PublicRedditClient: position of each caller of fetchRedditJson
  sent,               \* PublicRedditClient: start times of the HTTP requests sent, in order
  reddit_accounts,    \* backend: rows of the table reddit_accounts
  apiResponse,        \* backend API: the latest response sent to the client
  component,          \* ExampleClientSide.vue: the component's data, its alerts and pending calls
  redditClient,       \* RedditClient: accessToken, tokenExpiry, username
  localStorage,       \* browser: reddit_auth_state, reddit_access_token, reddit_token_expiry
  local_accounts,     \* browser: entries of the object store reddit_accounts
  authOut,            \* RedditClient: outcome of the latest handleCallback or getMe
  scheduled_posts,    \* backend: rows of the table scheduled_posts
  request,            \* backend: the request being served
  subreddits          \* backend: rows of the table subreddits

dataVars == <<backendUp, backendAvailable, user_subreddits, tracked_subreddits, opOut>>
rateVars == <<now, lastRequestTime, callers, sent>>
accountVars == <<reddit_accounts, apiResponse>>
scraperVars == <<runtime, tz, sink, ret, bNames, bIdx, bPc, results, started, nFinished, nDelays, arg, srvOut, cliOut>>
authVars == <<redditClient, localStorage, local_accounts, authOut>>
routeVars == <<scheduled_posts, request, subreddits>>
appVars == <<component, authVars, routeVars>>
vars == <<scraperVars, dataVars, rateVars, accountVars, appVars>>

(***************************************************************************)
(* JavaScript values                                                       *)
(***************************************************************************)
Null == <<>>
Some(v) == <<v>>

\* const x = e: the value of e, computed once and read through the bound name, is written
\* The({.. x .. : x \in {e}})
The(s) == CHOOSE v \in s : TRUE

\* String.prototype.toLowerCase and the /i flag, on one character
Lower(c) ==
  CASE c = "A" -> "a" [] c = "B" -> "b" [] c = "C" -> "c" [] c = "D" -> "d" [] c = "E" -> "e"
    [] c = "F" -> "f" [] c = "G" -> "g" [] c = "H" -> "h" [] c = "I" -> "i" [] c = "J" -> "j"
    [] c = "K" -> "k" [] c = "L" -> "l" [] c = "M" -> "m" [] c = "N" -> "n" [] c = "O" -> "o"
    [] c = "P" -> "p" [] c = "Q" -> "q" [] c = "R" -> "r" [] c = "S" -> "s" [] c = "T" -> "t"
    [] c = "U" -> "u" [] c = "V" -> "v" [] c = "W" -> "w" [] c = "X" -> "x" [] c = "Y" -> "y"
    [] c = "Z" -> "z" [] OTHER -> c

toLowerCase(s) == [k \in 1..Len(s) |-> Lower(s[k])]

DigitValue(c) ==
  CASE c = "0" -> 0 [] c = "1" -> 1 [] c = "2" -> 2 [] c = "3" -> 3 [] c = "4" -> 4
    [] c = "5" -> 5 [] c = "6" -> 6 [] c = "7" -> 7 [] c = "8" -> 8 [] c = "9" -> 9

Digits == {"0", "1", "2", "3", "4", "5", "6", "7", "8", "9"}

\* parseInt of a string of decimal digits (the only strings the captures hold)
parseInt(s) ==
  LET f[k \in 0..Len(s)] == IF k = 0 THEN 0 ELSE 10 * f[k-1] + DigitValue(s[k])
  IN f[Len(s)]

(***************************************************************************)
(* Regular expressions.  A pattern is the program a backtracking engine    *)
(* runs: a sequence of instructions with relative jumps.  "split" tries    *)
(* its first branch and falls back to its second if the first cannot be    *)
(* completed to a match; "star" repeats a character class, the greedy one  *)
(* trying the longest repetition first and the lazy one the shortest.      *)
(* This is the order in which String#match and RegExp#test try the         *)
(* alternatives, so the captures are those of the first match the engine   *)
(* finds from the leftmost position.                                       *)
(***************************************************************************)
InClass(cls, c) ==
  CASE cls = "d" -> c \in Digits
    [] cls = "s" -> c \in {" ", "\n", "\t"}
    [] cls = "." -> c # "\n"

Ins(op, c, n, x, y) == [op |-> op, c |-> c, n |-> n, x |-> x, y |-> y]

\* literal text under the /i flag (written in lower case)
Lit(s) == <<Ins("lit", s, 0, 0, 0)>>
\* \d, \s and .
Cls(c) == <<Ins("class", c, 0, 0, 0)>>
\* x1 x2 .. xn
Cat(xs) ==
  LET f[k \in 0..Len(xs)] == IF k = 0 THEN <<>> ELSE f[k-1] \o xs[k]
  IN f[Len(xs)]
\* a|b
Alt2(a, b) == <<Ins("split", "", 0, 1, Len(a) + 2)>> \o a \o <<Ins("jmp", "", 0, Len(b) + 1, 0)>> \o b
\* x1|x2|..|xn
Alt(xs) ==
  LET f[k \in 1..Len(xs)] == IF k = Len(xs) THEN xs[k] ELSE Alt2(xs[k], f[k+1])
  IN f[1]
\* x* for a character class x
Star(x) == <<Ins("star", x[1].c, 0, 1, 0)>>
\* x*? for a character class x
LazyStar(x) == <<Ins("star", x[1].c, 0, 0, 0)>>
\* x+
Plus(x) == x \o Star(x)
\* x?
Opt(x) == <<Ins("split", "", 0, 1, Len(x) + 1)>> \o x
\* (x), the n-th capturing group
Grp(n, x) == <<Ins("open", "", n, 0, 0)>> \o x \o <<Ins("close", "", n, 0, 0)>>

NoCaps == <<Null, Null, Null>>
NoMatch == [ok |-> FALSE, g |-> NoCaps, ends |-> <<0, 0, 0>>]

\* the first of two attempts that succeeds
FirstOk(r, other) == IF r.ok THEN r ELSE other
\* of the attempts <<k, result>> that succeeded, the one the engine reaches first: the
\* largest k when it tries the attempts from the largest k down, else the smallest
Preferred(oks, downwards) ==
  IF oks = {} THEN NoMatch
  ELSE (CHOOSE p \in oks : \A q \in oks : IF downwards THEN p[1] >= q[1] ELSE p[1] <= q[1])[2]
\* the n-th group ends before position i
CloseGroup(r, n, i) == IF r.ok THEN [r EXCEPT !.ends[n] = i] ELSE r
\* the n-th group starts at position i
OpenGroup(r, n, i, txt) ==
  IF r.ok THEN [r EXCEPT !.g[n] = Some(SubSeq(txt, i, r.ends[n] - 1))] ELSE r

\* String#match without the g flag: ok tells whether the pattern matches somewhere in str,
\* g[n] is the text of the n-th group (Null when the group took no part in the match)
Match(re, str) ==
  The({ LET run[pc \in 1..Len(prog), i \in 1..(Len(txt) + 1)] ==
              CASE prog[pc].op = "lit" ->
                     IF /\ i + Len(prog[pc].c) - 1 <= Len(txt)
                        /\ \A k \in 1..Len(prog[pc].c) : Lower(txt[i + k - 1]) = prog[pc].c[k]
                     THEN run[pc + 1, i + Len(prog[pc].c)] ELSE NoMatch
                [] prog[pc].op = "class" ->
                     IF i <= Len(txt) /\ InClass(prog[pc].c, txt[i]) THEN run[pc + 1, i + 1] ELSE NoMatch
                [] prog[pc].op = "star" ->
                     The({ Preferred(oks, prog[pc].x = 1) :
                           oks \in {{ p \in { <<k, run[pc + 1, i + k]>> :
                                             k \in { k \in 0..(Len(txt) + 1 - i) :
                                                     \A j \in 0..(k - 1) : InClass(prog[pc].c, txt[i + j]) } } :
                                      p[2].ok }} })
                [] prog[pc].op = "split" ->
                     The({FirstOk(r, run[pc + prog[pc].y, i]) : r \in {run[pc + prog[pc].x, i]}})
                [] prog[pc].op = "jmp" -> run[pc + prog[pc].x, i]
                [] prog[pc].op = "close" ->
                     The({CloseGroup(r, prog[pc].n, i) : r \in {run[pc + 1, i]}})
                [] prog[pc].op = "open" ->
                     The({OpenGroup(r, prog[pc].n, i, txt) : r \in {run[pc + 1, i]}})
                [] prog[pc].op = "match" -> [ok |-> TRUE, g |-> NoCaps, ends |-> <<0, 0, 0>>]
        IN The({ Preferred(oks, FALSE) :
                 oks \in {{ p \in {<<s, run[1, s]>> : s \in 1..(Len(txt) + 1)} : p[2].ok }} }) :
        prog \in {re \o <<Ins("match", "", 0, 0, 0)>>}, txt \in {str} })
\* RegExp#test
Test(re, txt) == Match(re, txt).ok

D == Cls("d")
S == Cls("s")
Dot == Cls(".")

\* /(\d+)\s*(?:combined\s*)?karma/i, /karma.*?(\d+)/i, /minimum.*?(\d+).*?karma/i
karmaPatterns ==
  << Cat(<<Grp(1, Plus(D)), Star(S), Opt(Cat(<<Lit(<<"c", "o", "m", "b", "i", "n", "e", "d">>), Star(S)>>)), Lit(<<"k", "a", "r", "m", "a">>)>>),
     Cat(<<Lit(<<"k", "a", "r", "m", "a">>), LazyStar(Dot), Grp(1, Plus(D))>>),
     Cat(<<Lit(<<"m", "i", "n", "i", "m", "u", "m">>), LazyStar(Dot), Grp(1, Plus(D)), LazyStar(Dot), Lit(<<"k", "a", "r", "m", "a">>)>>) >>

\* /(\d+)\s*days?\s*old/i, /account.*?(\d+)\s*days/i, /(\d+)\s*day.*?account/i
agePatterns ==
  << Cat(<<Grp(1, Plus(D)), Star(S), Lit(<<"d", "a", "y">>), Opt(Lit(<<"s">>)), Star(S), Lit(<<"o", "l", "d">>)>>),
     Cat(<<Lit(<<"a", "c", "c", "o", "u", "n", "t">>), LazyStar(Dot), Grp(1, Plus(D)), Star(S), Lit(<<"d", "a", "y", "s">>)>>),
     Cat(<<Grp(1, Plus(D)), Star(S), Lit(<<"d", "a", "y">>), LazyStar(Dot), Lit(<<"a", "c", "c", "o", "u", "n", "t">>)>>) >>

\* /verif(y|ied|ication)/i
verificationPattern ==
  Cat(<<Lit(<<"v", "e", "r", "i", "f">>), Grp(1, Alt(<<Lit(<<"y">>), Lit(<<"i", "e", "d">>), Lit(<<"i", "c", "a", "t", "i", "o", "n">>)>>))>>)

\* /no\s*(external\s*)?links?/i
noLinksPattern ==
  Cat(<<Lit(<<"n", "o">>), Star(S), Opt(Grp(1, Cat(<<Lit(<<"e", "x", "t", "e", "r", "n", "a", "l">>), Star(S)>>))), Lit(<<"l", "i", "n", "k">>), Opt(Lit(<<"s">>))>>)

\* /links?\s*(only\s*)?(in\s*)?profile/i
profileLinksPattern ==
  Cat(<<Lit(<<"l", "i", "n", "k">>), Opt(Lit(<<"s">>)), Star(S), Opt(Grp(1, Cat(<<Lit(<<"o", "n", "l", "y">>), Star(S)>>))),
        Opt(Grp(2, Cat(<<Lit(<<"i", "n">>), Star(S)>>))), Lit(<<"p", "r", "o", "f", "i", "l", "e">>)>>)

\* /(\d+)\s*(?:posts?|submissions?)\s*per\s*(\d+)?\s*(hour|day)/i
freqPattern ==
  Cat(<<Grp(1, Plus(D)), Star(S),
        Alt(<<Cat(<<Lit(<<"p", "o", "s", "t">>), Opt(Lit(<<"s">>))>>), Cat(<<Lit(<<"s", "u", "b", "m", "i", "s", "s", "i", "o", "n">>), Opt(Lit(<<"s">>))>>)>>),
        Star(S), Lit(<<"p", "e", "r">>), Star(S), Opt(Grp(2, Plus(D))), Star(S),
        Grp(3, Alt(<<Lit(<<"h", "o", "u", "r">>), Lit(<<"d", "a", "y">>)>>))>>)

\* for (const pattern of patterns) { match = text.match(pattern); if (match) { value = parseInt(match[1]); break } }
FirstCapture(patterns, txt) ==
  LET f[k \in 1..(Len(patterns) + 1)] ==
        IF k > Len(patterns) THEN Null
        ELSE The({ IF m.ok THEN Some(parseInt(m.g[1][1])) ELSE f[k + 1] :
                   m \in {Match(patterns[k], txt)} })
  IN f[1]

\* JavaScript truthiness of an optional number
Truthy(v) == v # Null /\ v[1] # 0

\* SubredditScraper.generateRulesSummary: the lines that parts.join('\n') joins
generateRulesSummary(requirements) ==
  LET parts ==
        (IF Truthy(requirements.min_karma)
           THEN << <<"Need ", requirements.min_karma[1], " karma">> >> ELSE <<>>)
        \o (IF Truthy(requirements.min_account_age_days)
           THEN << <<"Account must be ", requirements.min_account_age_days[1], "+ days old">> >> ELSE <<>>)
        \o (IF requirements.requires_verification
           THEN << <<"Verification required">> >> ELSE <<>>)
        \o (IF requirements.posting_frequency_limit # Null
           THEN << <<"Posting limit: ", requirements.posting_frequency_limit[1]>> >> ELSE <<>>)
        \o (IF ~requirements.allows_links_in_post
           THEN << <<"No links in posts (profile only)">> >> ELSE <<>>)
        \o (IF Len(requirements.required_flairs) > 0
           THEN << <<"Must use flair">> >> ELSE <<>>)
  IN IF Len(parts) > 0 THEN parts ELSE << <<"No special requirements found">> >>

\* the result of an awaited fetch: the value, or a rejection
Fulfilled(v) == [ok |-> TRUE, v |-> v, error |-> ""]
Rejected(message) == [ok |-> FALSE, v |-> <<>>, error |-> message]

\* flairs.map(f => f.text).filter(Boolean): the texts that are not empty
filterBoolean(flairs) ==
  LET f[k \in 0..Len(flairs)] ==
        IF k = 0 THEN <<>>
        ELSE IF flairs[k].text # <<>> THEN Append(f[k-1], flairs[k].text) ELSE f[k-1]
  IN f[Len(flairs)]

\* the hours of a posting frequency match, were the unit not looked at
FrequencyHoursUnitIgnored(freqMatch) ==
  IF freqMatch.g[2] # Null THEN parseInt(freqMatch.g[2][1]) ELSE parseInt(<<"1">>)
\* `1 per ${hours} hours` of a posting frequency match: a day is 24 hours, a missing number
\* of hours is parseInt('1')
FrequencyHours(freqMatch) ==
  IF toLowerCase(freqMatch.g[3][1]) = <<"d", "a", "y">> THEN 24
  ELSE IF freqMatch.g[2] # Null THEN parseInt(freqMatch.g[2][1]) ELSE parseInt(<<"1">>)

\* the requirements, were the profile check an else-branch of the no-links check
ServerRequirementsElseIf(rulesText, flairs) ==
  The({ [ min_karma |-> FirstCapture(karmaPatterns, rulesText),
          min_account_age_days |-> FirstCapture(agePatterns, rulesText),
          requires_verification |-> Test(verificationPattern, rulesText),
          allows_links_in_post |-> ~(noLinks \/ profileLinks),
          allows_links_in_comments |-> ~(noLinks \/ profileLinks),
          allows_links_in_profile_only |-> IF profileLinks /\ ~noLinks THEN Some(TRUE) ELSE Null,
          posting_frequency_limit |->
            IF freqMatch.ok THEN Some(<<"1 per ", FrequencyHours(freqMatch), " hours">>) ELSE Null,
          posting_frequency_hours |-> IF freqMatch.ok THEN Some(FrequencyHours(freqMatch)) ELSE Null,
          required_flairs |-> IF flairs.ok THEN filterBoolean(flairs.v) ELSE <<>>,
          rules_raw |-> rulesText,
          rules_summary |-> <<>> ] :
        noLinks \in {Test(noLinksPattern, rulesText)},
        profileLinks \in {Test(profileLinksPattern, rulesText)},
        freqMatch \in {Match(freqPattern, rulesText)} })

\* the requirements object of SubredditScraper.parseRules before its rules_summary is set.
\* The fields the method initialises and never assigns (min_post_karma, min_comment_karma,
\* verification_instructions, banned_words, content_types_allowed) are left out.
ServerRequirements(rulesText, flairs) ==
  The({ [ min_karma |-> FirstCapture(karmaPatterns, rulesText),
          min_account_age_days |-> FirstCapture(agePatterns, rulesText),
          requires_verification |-> Test(verificationPattern, rulesText),
          allows_links_in_post |-> ~(noLinks \/ profileLinks),
          allows_links_in_comments |-> ~(noLinks \/ profileLinks),
          allows_links_in_profile_only |-> IF profileLinks THEN Some(TRUE) ELSE Null,
          posting_frequency_limit |->
            IF freqMatch.ok THEN Some(<<"1 per ", FrequencyHours(freqMatch), " hours">>) ELSE Null,
          posting_frequency_hours |-> IF freqMatch.ok THEN Some(FrequencyHours(freqMatch)) ELSE Null,
          required_flairs |-> IF flairs.ok THEN filterBoolean(flairs.v) ELSE <<>>,
          rules_raw |-> rulesText,
          rules_summary |-> <<>> ] :
        noLinks \in {Test(noLinksPattern, rulesText)},
        profileLinks \in {Test(profileLinksPattern, rulesText)},
        freqMatch \in {Match(freqPattern, rulesText)} })

\* SubredditScraper.parseRules, from the assembled rulesText on; flairs is the outcome of
\* subreddit.getLinkFlairTemplates()
ServerParseRules(rulesText, flairs) ==
  The({ [requirements EXCEPT !.rules_summary = generateRulesSummary(requirements)] :
        requirements \in {ServerRequirements(rulesText, flairs)} })

\* the patterns of ClientSubredditScraper.parseRules
clientKarmaPattern ==
  Cat(<<Grp(1, Plus(D)), Star(S), Opt(Cat(<<Lit(<<"c", "o", "m", "b", "i", "n", "e", "d">>), Star(S)>>)), Lit(<<"k", "a", "r", "m", "a">>)>>)
clientAgePattern ==
  Cat(<<Grp(1, Plus(D)), Star(S), Lit(<<"d", "a", "y">>), Opt(Lit(<<"s">>)), Star(S), Lit(<<"o", "l", "d">>)>>)
clientVerificationPattern ==
  Cat(<<Lit(<<"v", "e", "r", "i", "f">>), Grp(1, Alt(<<Lit(<<"y">>), Lit(<<"i", "e", "d">>), Lit(<<"i", "c", "a", "t", "i", "o", "n">>)>>))>>)
clientNoLinksPattern ==
  Cat(<<Lit(<<"n", "o">>), Star(S), Opt(Grp(1, Cat(<<Lit(<<"e", "x", "t", "e", "r", "n", "a", "l">>), Star(S)>>))), Lit(<<"l", "i", "n", "k">>), Opt(Lit(<<"s">>))>>)
clientProfileLinksPattern ==
  Cat(<<Lit(<<"l", "i", "n", "k">>), Opt(Lit(<<"s">>)), Star(S), Opt(Grp(1, Cat(<<Lit(<<"o", "n", "l", "y">>), Star(S)>>))),
        Opt(Grp(2, Cat(<<Lit(<<"i", "n">>), Star(S)>>))), Lit(<<"p", "r", "o", "f", "i", "l", "e">>)>>)
clientFreqPattern ==
  Cat(<<Grp(1, Plus(D)), Star(S),
        Alt(<<Cat(<<Lit(<<"p", "o", "s", "t">>), Opt(Lit(<<"s">>))>>), Cat(<<Lit(<<"s", "u", "b", "m", "i", "s", "s", "i", "o", "n">>), Opt(Lit(<<"s">>))>>)>>),
        Star(S), Lit(<<"p", "e", "r">>), Star(S), Opt(Grp(2, Plus(D))), Star(S),
        Grp(3, Alt(<<Lit(<<"h", "o", "u", "r">>), Lit(<<"d", "a", "y">>)>>))>>)

\* the requirements object of ClientSubredditScraper.parseRules before its rules_summary is
\* set; it has no required_flairs
ClientRequirements(rulesText) ==
  The({ [ min_karma |-> IF karmaMatch.ok THEN Some(parseInt(karmaMatch.g[1][1])) ELSE Null,
          min_account_age_days |-> IF ageMatch.ok THEN Some(parseInt(ageMatch.g[1][1])) ELSE Null,
          requires_verification |-> Test(clientVerificationPattern, rulesText),
          allows_links_in_post |-> ~(noLinks \/ profileLinks),
          allows_links_in_comments |-> ~(noLinks \/ profileLinks),
          allows_links_in_profile_only |-> IF profileLinks THEN Some(TRUE) ELSE Null,
          posting_frequency_hours |-> IF freqMatch.ok THEN Some(FrequencyHours(freqMatch)) ELSE Null,
          posting_frequency_limit |->
            IF freqMatch.ok THEN Some(<<"1 per ", FrequencyHours(freqMatch), " hours">>) ELSE Null,
          rules_raw |-> rulesText,
          rules_summary |-> <<>> ] :
        karmaMatch \in {Match(clientKarmaPattern, rulesText)},
        ageMatch \in {Match(clientAgePattern, rulesText)},
        noLinks \in {Test(clientNoLinksPattern, rulesText)},
        profileLinks \in {Test(clientProfileLinksPattern, rulesText)},
        freqMatch \in {Match(clientFreqPattern, rulesText)} })

\* the summary ClientSubredditScraper.parseRules builds in line: the lines that
\* parts.join('\n') joins
ClientRulesSummary(requirements) ==
  LET parts ==
        (IF Truthy(requirements.min_karma)
           THEN << <<"Need ", requirements.min_karma[1], " karma">> >> ELSE <<>>)
        \o (IF Truthy(requirements.min_account_age_days)
           THEN << <<"Account must be ", requirements.min_account_age_days[1], "+ days old">> >> ELSE <<>>)
        \o (IF requirements.requires_verification
           THEN << <<"Verification required">> >> ELSE <<>>)
        \o (IF requirements.posting_frequency_limit # Null
           THEN << <<"Posting limit: ", requirements.posting_frequency_limit[1]>> >> ELSE <<>>)
        \o (IF ~requirements.allows_links_in_post
           THEN << <<"No links in posts (profile only)">> >> ELSE <<>>)
  IN IF Len(parts) > 0 THEN parts ELSE << <<"No special requirements found">> >>

\* ClientSubredditScraper.parseRules
ClientParseRules(rulesText) ==
  The({ [requirements EXCEPT !.rules_summary = ClientRulesSummary(requirements)] :
        requirements \in {ClientRequirements(rulesText)} })

(***************************************************************************)
(* Numbers: the result of a JavaScript division is an exact fraction n/d   *)
(* in lowest terms, or NaN (0/0); an array read past the end is undefined. *)
(***************************************************************************)
GCD(a, b) ==
  LET g[x \in 0..(a + b), y \in 0..(a + b)] == IF y = 0 THEN x ELSE g[y, x % y]
  IN g[a, b]

Number(n, d) == LET g == GCD(n, d) IN [kind |-> "number", n |-> n \div g, d |-> d \div g]
NaN == [kind |-> "NaN", n |-> 0, d |-> 0]
Undefined == [kind |-> "undefined", n |-> 0, d |-> 0]
Zero == Number(0, 1)

\* a / b for integers a >= 0, b >= 0, where a = 0 whenever b = 0
Divide(a, b) == IF b = 0 THEN NaN ELSE Number(a, b)

\* x * 0.7 + y * 0.3
Weighted(x, y) ==
  IF x.kind # "number" \/ y.kind # "number" THEN NaN
  ELSE Number(7 * x.n * y.d + 3 * y.n * x.d, 10 * x.d * y.d)

\* xs.reduce((a, b) => a + b, 0)
Sum(xs) ==
  LET f[k \in 0..Len(xs)] == IF k = 0 THEN 0 ELSE f[k-1] + xs[k]
  IN f[Len(xs)]

\* xs.sort((a, b) => a - b)
InsertAscending(sorted, x) ==
  LET p == Cardinality({j \in 1..Len(sorted) : sorted[j] <= x})
  IN SubSeq(sorted, 1, p) \o <<x>> \o SubSeq(sorted, p + 1, Len(sorted))
SortAscending(xs) ==
  LET f[k \in 0..Len(xs)] == IF k = 0 THEN <<>> ELSE InsertAscending(f[k-1], xs[k])
  IN f[Len(xs)]

\* the lower of the two middle elements when the length is even
MiddleElementLower(sorted) ==
  LET i == (Len(sorted) - 1) \div 2
  IN IF Len(sorted) > 0 THEN Number(sorted[i + 1], 1) ELSE Undefined
\* sorted[Math.floor(sorted.length / 2)]
MiddleElement(sorted) ==
  LET i == Len(sorted) \div 2
  IN IF i + 1 <= Len(sorted) THEN Number(sorted[i + 1], 1) ELSE Undefined

\* SubredditScraper.calculateEngagement; hot is the outcome of subreddit.getHot()
ServerCalculateEngagement(hot) ==
  LET posts == IF hot.ok THEN hot.v ELSE <<>>
      upvotes == [k \in 1..Len(posts) |-> posts[k].score]
      comments == [k \in 1..Len(posts) |-> posts[k].num_comments]
      avgUpvotes == IF Len(upvotes) > 0 THEN Divide(Sum(upvotes), Len(upvotes)) ELSE Zero
      medianUpvotes == IF Len(upvotes) > 0 THEN MiddleElement(SortAscending(upvotes)) ELSE Zero
      avgComments == IF Len(comments) > 0 THEN Divide(Sum(comments), Len(comments)) ELSE Zero
  IN [ avg_upvotes |-> avgUpvotes,
       median_upvotes |-> medianUpvotes,
       avg_comments |-> avgComments,
       engagement_score |-> Weighted(avgUpvotes, avgComments) ]

\* PublicRedditClient.getRecentPosts: a failed request becomes the empty list, the method
\* never rejects
getRecentPosts(listing) == IF listing.ok THEN Fulfilled(listing.v) ELSE Fulfilled(<<>>)


\* ClientSubredditScraper.calculateEngagement; recent is the outcome of
\* publicRedditClient.getRecentPosts()
ClientCalculateEngagement(recent) ==
  IF recent.ok
  THEN LET posts == recent.v
           upvotes == [k \in 1..Len(posts) |-> posts[k].score]
           comments == [k \in 1..Len(posts) |-> posts[k].num_comments]
           avgUpvotes == Divide(Sum(upvotes), Len(upvotes))
           sortedUpvotes == SortAscending(upvotes)
           medianUpvotes == MiddleElement(sortedUpvotes)
           avgComments == Divide(Sum(comments), Len(comments))
       IN [ avg_upvotes |-> avgUpvotes,
            median_upvotes |-> medianUpvotes,
            avg_comments |-> avgComments,
            engagement_score |-> Weighted(avgUpvotes, avgComments) ]
  ELSE [ avg_upvotes |-> Zero, median_upvotes |-> Zero, avg_comments |-> Zero, engagement_score |-> Zero ]

(***************************************************************************)
(* Best posting times                                                      *)
(***************************************************************************)
DayNames == <<"sunday", "monday", "tuesday", "wednesday", "thursday", "friday", "saturday">>

\* new Date(created_utc * 1000).getDay() in a process whose local time is tz hours ahead of UTC
\* (1 January 1970 was a Thursday)
getDay(created_utc, zone) == (((created_utc + zone * 3600) \div 86400) + 4) % 7
\* new Date(created_utc * 1000).getHours()
getHours(created_utc, zone) == ((created_utc + zone * 3600) \div 3600) % 24

DigitChar(n) ==
  CASE n = 0 -> "0" [] n = 1 -> "1" [] n = 2 -> "2" [] n = 3 -> "3" [] n = 4 -> "4"
    [] n = 5 -> "5" [] n = 6 -> "6" [] n = 7 -> "7" [] n = 8 -> "8" [] n = 9 -> "9"
\* `${hour}` for an hour of the day
HourString(h) == IF h < 10 THEN <<DigitChar(h)>> ELSE <<DigitChar(h \div 10), DigitChar(h % 10)>>

\* position of the entry of obj with that key, 0 when the object has no such property
IndexOfKey(obj, key) ==
  IF \E k \in 1..Len(obj) : obj[k].key = key
  THEN CHOOSE k \in 1..Len(obj) : obj[k].key = key
  ELSE 0

\* obj[key].push(x), creating obj[key] = [] first when it is missing; an object is the
\* sequence of its entries in insertion order, which is the order Object.entries and for-in use
Push(obj, key, x) ==
  LET k == IndexOfKey(obj, key)
  IN IF k = 0 THEN Append(obj, [key |-> key, value |-> <<x>>])
     ELSE [obj EXCEPT ![k].value = Append(@, x)]

\* a.score > b.score for two fractions
Greater(a, b) == a.n * b.d > b.n * a.d

\* slots.sort((a, b) => b.score - a.score): descending, equal scores keep their order
InsertDescending(sorted, x) ==
  LET p == Cardinality({j \in 1..Len(sorted) : ~Greater(x.score, sorted[j].score)})
  IN SubSeq(sorted, 1, p) \o <<x>> \o SubSeq(sorted, p + 1, Len(sorted))
SortByScore(slots) ==
  LET f[k \in 0..Len(slots)] == IF k = 0 THEN <<>> ELSE InsertDescending(f[k-1], slots[k])
  IN f[Len(slots)]

\* the hours of all slots of the day, best first, without the slice
TopHoursUnsliced(slots) ==
  LET sorted == SortByScore(slots)
  IN [k \in 1..Len(sorted) |-> sorted[k].hour]
\* slots.sort(...).slice(0, 3).map(h => h.hour)
TopHours(slots) ==
  LET sorted == SortByScore(slots)
      kept == SubSeq(sorted, 1, IF Len(sorted) < 3 THEN Len(sorted) ELSE 3)
  IN [k \in 1..Len(kept) |-> kept[k].hour]

\* SubredditScraper.analyzeBestPostingTimes; top is the outcome of subreddit.getTop(), zone
\* the local time zone of the process.  The key `${day}_${hour}` is the pair of its two parts.
ServerAnalyzeBestPostingTimes(top, zone) ==
  LET posts == IF top.ok THEN top.v ELSE <<>>
      byTime[k \in 0..Len(posts)] ==
        IF k = 0 THEN <<>>
        ELSE LET day == DayNames[getDay(posts[k].created_utc, zone) + 1]
                 hour == getHours(posts[k].created_utc, zone)
             IN Push(byTime[k-1], <<day, HourString(hour)>>, posts[k].score)
      performanceByTime == byTime[Len(posts)]
      byDay[k \in 0..Len(performanceByTime)] ==
        IF k = 0 THEN <<>>
        ELSE LET entry == performanceByTime[k]
                 day == entry.key[1]
                 hour == entry.key[2]
                 avgScore == Divide(Sum(entry.value), Len(entry.value))
             IN Push(byDay[k-1], day, [hour |-> parseInt(hour), score |-> avgScore])
      bestTimes == byDay[Len(performanceByTime)]
  IN [k \in 1..Len(bestTimes) |-> [key |-> bestTimes[k].key, value |-> TopHours(bestTimes[k].value)]]

\* PublicRedditClient.getTopPosts: as getRecentPosts
getTopPosts(listing) == IF listing.ok THEN Fulfilled(listing.v) ELSE Fulfilled(<<>>)

\* ClientSubredditScraper.analyzeBestPostingTimes; top is the outcome of
\* publicRedditClient.getTopPosts()
ClientAnalyzeBestPostingTimes(top, zone) ==
  IF ~top.ok THEN <<>>
  ELSE
  LET posts == top.v
      byTime[k \in 0..Len(posts)] ==
        IF k = 0 THEN <<>>
        ELSE LET day == DayNames[getDay(posts[k].created_utc, zone) + 1]
                 hour == getHours(posts[k].created_utc, zone)
             IN Push(byTime[k-1], <<day, HourString(hour)>>, posts[k].score)
      performanceByTime == byTime[Len(posts)]
      byDay[k \in 0..Len(performanceByTime)] ==
        IF k = 0 THEN <<>>
        ELSE LET entry == performanceByTime[k]
                 day == entry.key[1]
                 hour == entry.key[2]
                 avgScore == Divide(Sum(entry.value), Len(entry.value))
             IN Push(byDay[k-1], day, [hour |-> parseInt(hour), score |-> avgScore])
      bestTimes == byDay[Len(performanceByTime)]
  IN [k \in 1..Len(bestTimes) |-> [key |-> bestTimes[k].key, value |-> TopHours(bestTimes[k].value)]]

(***************************************************************************)
(* Niche tags                                                              *)
(***************************************************************************)
\* text.includes(kw)
includes(text, kw) ==
  \E i \in 1..(Len(text) - Len(kw) + 1) : SubSeq(text, i, i + Len(kw) - 1) = kw

\* the nicheKeywords object of SubredditScraper.inferNicheTags, in the order of its entries
nicheKeywords ==
  << [tag |-> "feet", keywords |-> <<<<"f", "e", "e", "t">>, <<"f", "o", "o", "t">>, <<"t", "o", "e", "s">>, <<"s", "o", "l", "e", "s">>>>],
     [tag |-> "petite", keywords |-> <<<<"p", "e", "t", "i", "t", "e">>, <<"t", "i", "n", "y">>, <<"s", "m", "a", "l", "l">>>>],
     [tag |-> "bbw", keywords |-> <<<<"b", "b", "w">>, <<"c", "u", "r", "v", "y">>, <<"t", "h", "i", "c", "k">>, <<"c", "h", "u", "b", "b", "y">>>>],
     [tag |-> "latina", keywords |-> <<<<"l", "a", "t", "i", "n", "a">>, <<"h", "i", "s", "p", "a", "n", "i", "c">>>>],
     [tag |-> "asian", keywords |-> <<<<"a", "s", "i", "a", "n">>, <<"j", "a", "p", "a", "n", "e", "s", "e">>, <<"k", "o", "r", "e", "a", "n">>>>],
     [tag |-> "ebony", keywords |-> <<<<"e", "b", "o", "n", "y">>, <<"b", "l", "a", "c", "k">>>>],
     [tag |-> "blonde", keywords |-> <<<<"b", "l", "o", "n", "d", "e">>, <<"b", "l", "o", "n", "d">>>>],
     [tag |-> "redhead", keywords |-> <<<<"r", "e", "d", "h", "e", "a", "d">>, <<"g", "i", "n", "g", "e", "r">>>>],
     [tag |-> "brunette", keywords |-> <<<<"b", "r", "u", "n", "e", "t", "t", "e">>>>],
     [tag |-> "milf", keywords |-> <<<<"m", "i", "l", "f">>, <<"m", "o", "m">>, <<"m", "a", "t", "u", "r", "e">>>>],
     [tag |-> "cosplay", keywords |-> <<<<"c", "o", "s", "p", "l", "a", "y">>, <<"c", "o", "s", "t", "u", "m", "e">>>>],
     [tag |-> "tattoo", keywords |-> <<<<"t", "a", "t", "t", "o", "o">>, <<"i", "n", "k", "e", "d">>, <<"a", "l", "t">>>>],
     [tag |-> "lingerie", keywords |-> <<<<"l", "i", "n", "g", "e", "r", "i", "e">>, <<"u", "n", "d", "e", "r", "w", "e", "a", "r">>>>],
     [tag |-> "amateur", keywords |-> <<<<"a", "m", "a", "t", "e", "u", "r">>, <<"h", "o", "m", "e", "m", "a", "d", "e">>, <<"r", "e", "a", "l">>>>],
     [tag |-> "fitness", keywords |-> <<<<"f", "i", "t", "n", "e", "s", "s">>, <<"f", "i", "t">>, <<"a", "t", "h", "l", "e", "t", "i", "c">>>>],
     [tag |-> "goth", keywords |-> <<<<"g", "o", "t", "h">>, <<"e", "m", "o">>>>],
     [tag |-> "lesbian", keywords |-> <<<<"l", "e", "s", "b", "i", "a", "n">>>>] >>

\* inferNicheTags without the toLowerCase() of the text
inferNicheTagsCaseSensitive(subreddit) ==
  LET text == subreddit.display_name \o <<" ">> \o subreddit.public_description
      f[k \in 0..Len(nicheKeywords)] ==
        IF k = 0 THEN <<>>
        ELSE IF \E j \in 1..Len(nicheKeywords[k].keywords) : includes(text, nicheKeywords[k].keywords[j])
             THEN Append(f[k-1], nicheKeywords[k].tag)
             ELSE f[k-1]
      tags == f[Len(nicheKeywords)]
  IN IF Len(tags) > 0 THEN tags ELSE <<"general">>
\* SubredditScraper.inferNicheTags; public_description is the empty text when the object
\* holds null, undefined or the empty string there (`|| ''`)
inferNicheTags(subreddit) ==
  LET text == toLowerCase(subreddit.display_name \o <<" ">> \o subreddit.public_description)
      f[k \in 0..Len(nicheKeywords)] ==
        IF k = 0 THEN <<>>
        ELSE IF \E j \in 1..Len(nicheKeywords[k].keywords) : includes(text, nicheKeywords[k].keywords[j])
             THEN Append(f[k-1], nicheKeywords[k].tag)
             ELSE f[k-1]
      tags == f[Len(nicheKeywords)]
  IN IF Len(tags) > 0 THEN tags ELSE <<"general">>

\* the nicheKeywords object of ClientSubredditScraper.inferNicheTags
clientNicheKeywords ==
  << [tag |-> "feet", keywords |-> <<<<"f", "e", "e", "t">>, <<"f", "o", "o", "t">>, <<"t", "o", "e", "s">>, <<"s", "o", "l", "e", "s">>>>],
     [tag |-> "petite", keywords |-> <<<<"p", "e", "t", "i", "t", "e">>, <<"t", "i", "n", "y">>, <<"s", "m", "a", "l", "l">>>>],
     [tag |-> "bbw", keywords |-> <<<<"b", "b", "w">>, <<"c", "u", "r", "v", "y">>, <<"t", "h", "i", "c", "k">>, <<"c", "h", "u", "b", "b", "y">>>>],
     [tag |-> "latina", keywords |-> <<<<"l", "a", "t", "i", "n", "a">>, <<"h", "i", "s", "p", "a", "n", "i", "c">>>>],
     [tag |-> "asian", keywords |-> <<<<"a", "s", "i", "a", "n">>, <<"j", "a", "p", "a", "n", "e", "s", "e">>, <<"k", "o", "r", "e", "a", "n">>>>],
     [tag |-> "ebony", keywords |-> <<<<"e", "b", "o", "n", "y">>, <<"b", "l", "a", "c", "k">>>>],
     [tag |-> "blonde", keywords |-> <<<<"b", "l", "o", "n", "d", "e">>, <<"b", "l", "o", "n", "d">>>>],
     [tag |-> "redhead", keywords |-> <<<<"r", "e", "d", "h", "e", "a", "d">>, <<"g", "i", "n", "g", "e", "r">>>>],
     [tag |-> "brunette", keywords |-> <<<<"b", "r", "u", "n", "e", "t", "t", "e">>>>],
     [tag |-> "milf", keywords |-> <<<<"m", "i", "l", "f">>, <<"m", "o", "m">>, <<"m", "a", "t", "u", "r", "e">>>>],
     [tag |-> "cosplay", keywords |-> <<<<"c", "o", "s", "p", "l", "a", "y">>, <<"c", "o", "s", "t", "u", "m", "e">>>>],
     [tag |-> "tattoo", keywords |-> <<<<"t", "a", "t", "t", "o", "o">>, <<"i", "n", "k", "e", "d">>, <<"a", "l", "t">>>>],
     [tag |-> "lingerie", keywords |-> <<<<"l", "i", "n", "g", "e", "r", "i", "e">>, <<"u", "n", "d", "e", "r", "w", "e", "a", "r">>>>],
     [tag |-> "amateur", keywords |-> <<<<"a", "m", "a", "t", "e", "u", "r">>, <<"h", "o", "m", "e", "m", "a", "d", "e">>, <<"r", "e", "a", "l">>>>],
     [tag |-> "fitness", keywords |-> <<<<"f", "i", "t", "n", "e", "s", "s">>, <<"f", "i", "t">>, <<"a", "t", "h", "l", "e", "t", "i", "c">>>>],
     [tag |-> "goth", keywords |-> <<<<"g", "o", "t", "h">>, <<"e", "m", "o">>>>],
     [tag |-> "lesbian", keywords |-> <<<<"l", "e", "s", "b", "i", "a", "n">>>>] >>

\* ClientSubredditScraper.inferNicheTags
ClientInferNicheTags(subreddit) ==
  LET text == toLowerCase(subreddit.display_name \o <<" ">> \o subreddit.public_description)
      f[k \in 0..Len(clientNicheKeywords)] ==
        IF k = 0 THEN <<>>
        ELSE IF \E j \in 1..Len(clientNicheKeywords[k].keywords) : includes(text, clientNicheKeywords[k].keywords[j])
             THEN Append(f[k-1], clientNicheKeywords[k].tag)
             ELSE f[k-1]
      tags == f[Len(clientNicheKeywords)]
  IN IF Len(tags) > 0 THEN tags ELSE <<"general">>

(***************************************************************************)
(* scrapeSubreddit.  up is what Reddit and the store answer during one     *)
(* call: about (status and body of the subreddit's about resource), the    *)
(* outcomes of the rules, flair, hot and top requests, and whether the     *)
(* write to the store succeeds.                                            *)
(***************************************************************************)
Runtimes == {"server", "client"}
TimeZones == {-1, 0}

\* message of the error snoowrap rejects sub.fetch() with
StatusText(status) ==
  CASE status = 404 -> "Not Found" [] status = 403 -> "Forbidden" [] OTHER -> "Error"

\* PublicRedditClient.fetchRedditJson: the error thrown for a response that is not ok
fetchRedditJson(response) ==
  IF response.status = 200 THEN Fulfilled(response.data)
  ELSE IF response.status = 404 THEN Rejected("Subreddit not found")
  ELSE IF response.status = 403 THEN Rejected("Subreddit is private or banned")
  ELSE IF response.status = 429 THEN Rejected("Rate limited - please wait a minute")
  ELSE Rejected("Reddit API error")

\* PublicRedditClient.getSubreddit: rethrows the error of fetchRedditJson
getSubreddit(response) ==
  LET data == fetchRedditJson(response)
  IN IF data.ok
     THEN Fulfilled([ name |-> data.v.display_name,
                      display_name |-> data.v.display_name_prefixed,
                      description |-> data.v.public_description ])
     ELSE data

\* PublicRedditClient.getSubredditRules: a failed request becomes the empty list
getSubredditRules(response) == IF response.ok THEN Fulfilled(response.v) ELSE Fulfilled(<<>>)

\* rulesText of SubredditScraper.parseRules: the sidebar, then a line per rule
ServerRulesText(sub, rules) ==
  LET f[k \in 0..(IF rules.ok THEN Len(rules.v) ELSE 0)] ==
        IF k = 0 THEN sub.description
        ELSE f[k-1] \o <<"\n">> \o rules.v[k].short_name \o <<":", " ">> \o
             (IF rules.v[k].description # <<>> THEN rules.v[k].description
              ELSE rules.v[k].violation_reason)
  IN f[IF rules.ok THEN Len(rules.v) ELSE 0]

\* sub.description + '\n\n' + rules.map(r => `${r.short_name}: ${r.description}`).join('\n')
ClientRulesText(sub, rules) ==
  LET f[k \in 0..Len(rules)] ==
        IF k = 0 THEN sub.description \o <<"\n", "\n">>
        ELSE f[k-1] \o (IF k > 1 THEN <<"\n">> ELSE <<>>) \o
             rules[k].short_name \o <<":", " ">> \o rules[k].description
  IN f[Len(rules)]

\* JSON.stringify of the bestTimes object: its members in order
stringify(obj) == [k \in 1..Len(obj) |-> <<obj[k].key, obj[k].value>>]

IndexOfName(rows, name) ==
  IF \E k \in 1..Len(rows) : rows[k].name = name
  THEN CHOOSE k \in 1..Len(rows) : rows[k].name = name /\ \A j \in 1..(k-1) : rows[j].name # name
  ELSE 0

\* SubredditScraper.saveToDatabase: INSERT ... ON CONFLICT (name) DO UPDATE SET ...
\* Columns that hold the same value in every row the scraper writes (subscribers,
\* active_users, created_utc, is_nsfw, min_post_karma, ...) are left out.
saveToDatabase(rows, data) ==
  The({
     IF k = 0
     THEN Append(rows,
            [ name |-> data.name,
              display_name |-> data.display_name,
              description |-> data.description,
              avg_upvotes |-> data.avg_upvotes,
              median_upvotes |-> data.median_upvotes,
              avg_comments |-> data.avg_comments,
              engagement_score |-> data.engagement_score,
              min_karma |-> data.min_karma,
              min_account_age_days |-> data.min_account_age_days,
              requires_verification |-> data.requires_verification,
              rules_raw |-> data.rules_raw,
              rules_summary |-> data.rules_summary,
              allows_links_in_post |-> data.allows_links_in_post,
              allows_links_in_comments |-> data.allows_links_in_comments,
              allows_links_in_profile_only |-> data.allows_links_in_profile_only,
              posting_frequency_limit |-> data.posting_frequency_limit,
              posting_frequency_hours |-> data.posting_frequency_hours,
              required_flairs |-> data.required_flairs,
              best_posting_times |-> stringify(data.best_posting_times),
              niche_tags |-> data.niche_tags ])
     ELSE [rows EXCEPT
              ![k].display_name = data.display_name,
              ![k].description = data.description,
              ![k].avg_upvotes = data.avg_upvotes,
              ![k].median_upvotes = data.median_upvotes,
              ![k].avg_comments = data.avg_comments,
              ![k].engagement_score = data.engagement_score,
              ![k].min_karma = data.min_karma,
              ![k].min_account_age_days = data.min_account_age_days,
              ![k].requires_verification = data.requires_verification,
              ![k].rules_raw = data.rules_raw,
              ![k].rules_summary = data.rules_summary,
              ![k].allows_links_in_post = data.allows_links_in_post,
              ![k].allows_links_in_comments = data.allows_links_in_comments,
              ![k].posting_frequency_limit = data.posting_frequency_limit,
              ![k].posting_frequency_hours = data.posting_frequency_hours,
              ![k].required_flairs = data.required_flairs,
              ![k].best_posting_times = stringify(data.best_posting_times),
              ![k].niche_tags = data.niche_tags ] :
     k \in {IndexOfName(rows, data.name)} })

\* LocalDatabase.saveSubreddit: put into the object store whose keyPath is name
\* (last_scraped, the time of the call, is left out)
saveSubreddit(rows, subreddit) ==
  The({ IF k = 0 THEN Append(rows, subreddit) ELSE [rows EXCEPT ![k] = subreddit] :
        k \in {IndexOfName(rows, subreddit.name)} })

NoData == <<>>

\* SubredditScraper.scrapeSubreddit, from the fetched subreddit to the object handed to
\* saveToDatabase
ServerProfile(up, zone) ==
  The({ [ name |-> sub.display_name,
       display_name |-> sub.display_name_prefixed,
       description |-> sub.public_description,
       min_karma |-> rulesData.min_karma,
       min_account_age_days |-> rulesData.min_account_age_days,
       requires_verification |-> rulesData.requires_verification,
       allows_links_in_post |-> rulesData.allows_links_in_post,
       allows_links_in_comments |-> rulesData.allows_links_in_comments,
       allows_links_in_profile_only |-> rulesData.allows_links_in_profile_only,
       posting_frequency_limit |-> rulesData.posting_frequency_limit,
       posting_frequency_hours |-> rulesData.posting_frequency_hours,
       required_flairs |-> rulesData.required_flairs,
       rules_raw |-> rulesData.rules_raw,
       rules_summary |-> rulesData.rules_summary,
       avg_upvotes |-> engagement.avg_upvotes,
       median_upvotes |-> engagement.median_upvotes,
       avg_comments |-> engagement.avg_comments,
       engagement_score |-> engagement.engagement_score,
       best_posting_times |-> ServerAnalyzeBestPostingTimes(up.top, zone),
       niche_tags |-> inferNicheTags(sub) ] :
        sub \in {up.about.data},
        rulesData \in {ServerParseRules(ServerRulesText(up.about.data, up.rules), up.flairs)},
        engagement \in {ServerCalculateEngagement(up.hot)} })

\* ClientSubredditScraper.scrapeSubreddit, from the fetched subreddit to the object handed
\* to localDB.saveSubreddit.  The object getSubreddit returns has no public_description.
ClientProfile(up, zone) ==
  The({ [ name |-> sub.name,
       display_name |-> sub.display_name,
       description |-> sub.description,
       min_karma |-> rulesData.min_karma,
       min_account_age_days |-> rulesData.min_account_age_days,
       requires_verification |-> rulesData.requires_verification,
       allows_links_in_post |-> rulesData.allows_links_in_post,
       allows_links_in_comments |-> rulesData.allows_links_in_comments,
       allows_links_in_profile_only |-> rulesData.allows_links_in_profile_only,
       posting_frequency_hours |-> rulesData.posting_frequency_hours,
       posting_frequency_limit |-> rulesData.posting_frequency_limit,
       rules_raw |-> rulesData.rules_raw,
       rules_summary |-> rulesData.rules_summary,
       avg_upvotes |-> engagement.avg_upvotes,
       median_upvotes |-> engagement.median_upvotes,
       avg_comments |-> engagement.avg_comments,
       engagement_score |-> engagement.engagement_score,
       best_posting_times |-> ClientAnalyzeBestPostingTimes(getTopPosts(up.top), zone),
       niche_tags |-> ClientInferNicheTags([display_name |-> sub.display_name, public_description |-> <<>>]) ] :
        sub \in {getSubreddit(up.about).v},
        rulesData \in {ClientParseRules(ClientRulesText(getSubreddit(up.about).v,
                                                        getSubredditRules(up.rules).v))},
        engagement \in {ClientCalculateEngagement(getRecentPosts(up.hot))} })

(***************************************************************************)
(* DataService (src/lib/dataService.js): every operation goes to the       *)
(* backend API or to the browser's LocalDatabase, as backendAvailable says *)
(***************************************************************************)
MaxTracked == 2

\* the operations whose payload is not modelled: which side served them and how they ended
DataOps ==
  { "getSubreddits", "getSubreddit", "getRedditAccounts", "getContent", "addContent",
    "getPostedContent" }
TrackNames == {"pics"}
AccountIds == {"acc-1", "acc-2"}
\* options.notes of trackSubreddit: absent, or a text
NotesOptions == {Null, Some("first"), Some("second")}
\* getUserId(): the id kept in localStorage, made up on first use; never empty
UserId == Some("user-1")

NoOp ==
  [ op |-> "none", servedBy |-> "none", reachable |-> TRUE, r |-> Fulfilled(<<>>),
    args |-> Null ]
DataIdle ==
  /\ backendAvailable = Null
  /\ user_subreddits = <<>>
  /\ tracked_subreddits = <<>>
  /\ opOut = NoOp

\* checkBackend(): the flag is true exactly when GET /health was answered with an ok status
checkBackend(reachable, healthy) == reachable /\ healthy

\* the message apiRequest throws for a response that is not ok: the routes answer
\* { error: '<text>' }, whose error.message is undefined
ApiError(status) ==
  CASE status = 401 -> "API error: 401"
    [] status = 404 -> "API error: 404"
    [] OTHER -> "API error: 500"

\* apiRequest(endpoint, options), given the answer res = [status, body] the backend gives
\* when the request reaches it
apiRequest(available, reachable, res) ==
  IF available # Some(TRUE) THEN Rejected("Backend not available")
  ELSE IF ~reachable THEN Rejected("Failed to fetch")
  ELSE IF res.status # 200 THEN Rejected(ApiError(res.status))
  ELSE Fulfilled(res.body)

\* INSERT ... ON CONFLICT (user_id, subreddit_id, reddit_account_id) DO UPDATE SET notes
Upsert(table, row) ==
  IF \E i \in 1..Len(table) :
        /\ table[i].user_id = row.user_id
        /\ table[i].subreddit_id = row.subreddit_id
        /\ table[i].reddit_account_id = row.reddit_account_id
  THEN [ i \in 1..Len(table) |->
           IF /\ table[i].user_id = row.user_id
              /\ table[i].subreddit_id = row.subreddit_id
              /\ table[i].reddit_account_id = row.reddit_account_id
           THEN [table[i] EXCEPT !.notes = row.notes]
           ELSE table[i] ]
  ELSE Append(table, row)

\* POST /api/subreddits/:id/track; queryOk: the database carried the statement out
PostTrack(table, userId, id, reddit_account_id, notes, queryOk) ==
  IF userId = Null THEN [status |-> 401, body |-> <<>>, table |-> table]
  ELSE IF ~queryOk THEN [status |-> 500, body |-> <<>>, table |-> table]
  ELSE The({ [ status |-> 200,
               body |-> SelectSeq(t, LAMBDA row :
                          /\ row.user_id = userId /\ row.subreddit_id = id
                          /\ row.reddit_account_id = reddit_account_id),
               table |-> t ] :
             t \in { Upsert(table, [ user_id |-> userId, subreddit_id |-> id,
                                     reddit_account_id |-> reddit_account_id,
                                     is_verified |-> FALSE, notes |-> notes,
                                     priority |-> 0 ]) } })

\* GET /api/subreddits/tracked: the user's rows
GetTracked(table, userId, queryOk) ==
  IF userId = Null THEN [status |-> 401, body |-> <<>>]
  ELSE IF ~queryOk THEN [status |-> 500, body |-> <<>>]
  ELSE [status |-> 200, body |-> SelectSeq(table, LAMBDA row : row.user_id = userId)]

\* LocalDatabase.trackSubreddit: add() to a store whose key "id" is auto-incremented
LocalTrackSubreddit(store, subredditName, accountId, notes) ==
  Append(store, [ id |-> Len(store) + 1, subreddit_name |-> subredditName,
                  account_id |-> accountId, is_verified |-> FALSE,
                  notes |-> IF notes = Null \/ notes = Some("") THEN Some("") ELSE notes,
                  priority |-> 0 ])

(***************************************************************************)
(* PublicRedditClient (src/lib/publicRedditClient.js): the rate limiter    *)
(***************************************************************************)
requestDelay == 1000
Tick == 500
MaxTime == 3000
MaxCallers == 3
MaxSent == 4
Callers == 1..MaxCallers
Resting == [pc |-> "idle", wake |-> 0]
RateIdle ==
  /\ now = requestDelay
  /\ lastRequestTime = 0
  /\ callers = [c \in Callers |-> Resting]
  /\ sent = <<>>
\* waitForRateLimit, up to its await: the time to sleep, 0 when there is none
SleepTime(t, last) == IF t - last < requestDelay THEN requestDelay - (t - last) ELSE 0

(***************************************************************************)
(* The accounts API of the backend (routes/accounts)                       *)
(***************************************************************************)
TokenKeys == {"access_token", "refresh_token"}
\* the value of a property that is set to undefined
NoValue == <<>>
AccountUsers == {Some("user-1"), Some("user-2")}
\* the Reddit accounts that get connected, each by the user who owns it
Connectable == {<<Some("user-1"), "alice">>, <<Some("user-1"), "bob">>}
NoResponse == [route |-> "none", status |-> 0, body |-> <<>>]
AccountsIdle == reddit_accounts = <<>> /\ apiResponse = NoResponse

\* JSON.stringify of an object: a property whose value is undefined is left out
json(obj) == [k \in {x \in DOMAIN obj : obj[x] # NoValue} |-> obj[k]]
\* { ...acc }: the row as selected
KeepTokens(acc) == acc
\* { ...acc, access_token: undefined, refresh_token: undefined }
HideTokens(acc) ==
  [k \in DOMAIN acc \cup TokenKeys |-> IF k \in TokenKeys THEN NoValue ELSE acc[k]]
\* delete account.access_token; delete account.refresh_token
DeleteTokens(acc) == [k \in DOMAIN acc \ TokenKeys |-> acc[k]]
\* SELECT * FROM reddit_accounts WHERE id = $1 AND user_id = $2
AccountRows(table, id, userId) ==
  SelectSeq(table, LAMBDA acc : acc.id = Some(id) /\ acc.user_id = userId)
\* res.status(status).json(obj)
Respond(status, obj) == [status |-> status, body |-> json(obj)]
Failure(status, message) == Respond(status, [error |-> Some(message)])
\* uuid_generate_v4(): an id no row has
FreshId(table) ==
  CHOOSE n \in 1..(Len(table) + 1) :
    /\ \A i \in 1..Len(table) : table[i].id # Some(n)
    /\ \A m \in 1..(n - 1) : \E i \in 1..Len(table) : table[i].id = Some(m)
\* the Reddit OAuth callback: the account of (user, reddit id) gets the new tokens and
\* the karma Reddit reports, or is inserted, as the primary account when the user has none
StoreAccount(table, userId, name, karma) ==
  IF \E i \in 1..Len(table) : table[i].user_id = userId /\ table[i].reddit_id = Some(name)
  THEN [ i \in 1..Len(table) |->
           IF table[i].user_id = userId /\ table[i].reddit_id = Some(name)
           THEN [table[i] EXCEPT !.post_karma = Some(karma)]
           ELSE table[i] ]
  ELSE Append(table,
         [ id |-> Some(FreshId(table)), user_id |-> userId, reddit_username |-> Some(name),
           reddit_id |-> Some(name), access_token |-> Some(<<"access", name>>),
           refresh_token |-> Some(<<"refresh", name>>), post_karma |-> Some(karma),
           comment_karma |-> Some(0), is_shadowbanned |-> Some(FALSE),
           is_primary |-> Some(\A i \in 1..Len(table) : table[i].user_id # userId) ])

\* GET /api/accounts
GetAccounts(table, userId, queryOk) ==
  IF userId = Null THEN Failure(401, "Not authenticated")
  ELSE IF ~queryOk THEN Failure(500, "Failed to get accounts")
  ELSE The({ [ status |-> 200,
               body |-> [i \in 1..Len(rows) |-> json(HideTokens(rows[i]))] ] :
             rows \in { SelectSeq(table, LAMBDA acc : acc.user_id = userId /\ acc.is_primary = Some(TRUE))
                        \o SelectSeq(table, LAMBDA acc : acc.user_id = userId /\ acc.is_primary # Some(TRUE)) } })

\* GET /api/accounts/:id
GetAccount(table, id, userId, queryOk) ==
  IF ~queryOk THEN Failure(500, "Failed to get account")
  ELSE IF Len(AccountRows(table, id, userId)) = 0 THEN Failure(404, "Account not found")
  ELSE Respond(200, DeleteTokens(AccountRows(table, id, userId)[1]))

\* DELETE /api/accounts/:id
DeleteAccount(table, id, userId, queryOk) ==
  IF ~queryOk THEN [res |-> Failure(500, "Failed to delete account"), table |-> table]
  ELSE IF Len(AccountRows(table, id, userId)) = 0
  THEN [res |-> Failure(404, "Account not found"), table |-> table]
  ELSE [ res |-> Respond(200, [success |-> Some(TRUE)]),
         table |-> SelectSeq(table, LAMBDA acc : ~(acc.id = Some(id) /\ acc.user_id = userId)) ]

\* POST /api/accounts/:id/check-health; me: the karma reddit.getMe() answers for the
\* owner of the stored tokens, Null when it throws; isShadowbanned: the outcome of the
\* public profile lookup
CheckHealth(table, id, userId, queryOk, me, isShadowbanned) ==
  IF ~queryOk \/ (Len(AccountRows(table, id, userId)) > 0 /\ me = Null)
  THEN [res |-> Failure(500, "Failed to check account health"), table |-> table]
  ELSE IF Len(AccountRows(table, id, userId)) = 0
  THEN [res |-> Failure(404, "Account not found"), table |-> table]
  ELSE [ res |-> Respond(200,
                   [ reddit_username |-> AccountRows(table, id, userId)[1].reddit_username,
                     post_karma |-> Some(me[1].link_karma),
                     comment_karma |-> Some(me[1].comment_karma),
                     total_karma |-> Some(me[1].link_karma + me[1].comment_karma),
                     is_shadowbanned |-> Some(isShadowbanned), checked_at |-> Some("now") ]),
         table |-> [ i \in 1..Len(table) |->
                       IF table[i].id = Some(id)
                       THEN [ table[i] EXCEPT !.post_karma = Some(me[1].link_karma),
                                              !.comment_karma = Some(me[1].comment_karma),
                                              !.is_shadowbanned = Some(isShadowbanned) ]
                       ELSE table[i] ] ]

\* GET /api/accounts/:id/stats; nothing was posted: the statistics are those of no row
GetStats(table, id, userId, queryOk) ==
  IF ~queryOk THEN Failure(500, "Failed to get stats")
  ELSE IF Len(AccountRows(table, id, userId)) = 0 THEN Failure(404, "Account not found")
  ELSE Respond(200,
         [ account |-> Some(json(HideTokens(AccountRows(table, id, userId)[1]))),
           stats |-> Some([total_posts |-> "0"]),
           recent_activity |-> Some(<<>>) ])

(***************************************************************************)
(* ExampleClientSide.vue, the component of the Creator Dashboard           *)
(***************************************************************************)
MaxScrapes == 2
\* expires_in of a Reddit token: 3600 seconds, in milliseconds
TokenLifetime == 3600000
\* data(), with the alerts shown and the calls of dataService.scrapeSubreddit made
NewComponent ==
  [ mounted |-> FALSE, clientExposed |-> FALSE, backendStatus |-> Null,
    authenticated |-> FALSE, subredditToScrape |-> "", scraping |-> FALSE,
    scrapedData |-> Null, subreddits |-> {}, alert |-> "",
    pending |-> <<>>, nScrapes |-> 0, pressed |-> Null ]

(***************************************************************************)
(* RedditClient (client-side OAuth, implicit flow) and the account store   *)
(***************************************************************************)
NewClient == [accessToken |-> Null, tokenExpiry |-> Null, username |-> Null]
EmptyStorage ==
  [reddit_auth_state |-> Null, reddit_access_token |-> Null, reddit_token_expiry |-> Null]
NoParams == [access_token |-> Null, expires_in |-> Null, state |-> Null, error |-> Null]
NoAuth ==
  [ op |-> "none", r |-> Fulfilled(<<>>), params |-> NoParams, savedState |-> Null,
    before |-> [memory |-> Null, stored |-> Null] ]
\* isAuthenticated(): this.accessToken && Date.now() < this.tokenExpiry
isAuthenticated(client, t) ==
  client.accessToken # Null /\ client.tokenExpiry # Null /\ t < client.tokenExpiry[1]

\* loadToken(): the stored token is taken over unless it is missing or has expired
loadToken(client, storage, t) ==
  IF /\ storage.reddit_access_token # Null /\ storage.reddit_token_expiry # Null
     /\ t < storage.reddit_token_expiry[1]
  THEN [client EXCEPT !.accessToken = storage.reddit_access_token,
                      !.tokenExpiry = storage.reddit_token_expiry]
  ELSE client
\* startAuth(): the random state is kept in localStorage for the callback
startAuth(storage, state) == [storage EXCEPT !.reddit_auth_state = Some(state)]
\* handleCallback(), given the parameters of the URL fragment: the outcome, and the client
\* and the storage it leaves
handleCallback(client, storage, params, t) ==
  IF params.error # Null
  THEN [r |-> Rejected("OAuth error"), client |-> client, storage |-> storage]
  ELSE IF params.state # storage.reddit_auth_state
  THEN [r |-> Rejected("State mismatch - possible CSRF attack"), client |-> client, storage |-> storage]
  ELSE IF params.access_token = Null
  THEN [r |-> Rejected("No access token received"), client |-> client, storage |-> storage]
  ELSE The({ [ r |-> Fulfilled(params.access_token),
               client |-> [client EXCEPT !.accessToken = params.access_token, !.tokenExpiry = expiry],
               storage |-> [ reddit_auth_state |-> Null,
                             reddit_access_token |-> params.access_token,
                             reddit_token_expiry |-> expiry ] ] :
             expiry \in { IF params.expires_in = Null THEN Null ELSE Some(t + TokenLifetime) } })
\* what GET /api/v1/me answers for the owner of the token
RedditUsers == {[name |-> "alice", id |-> "t2_a"], [name |-> "bob", id |-> "t2_b"]}
\* getMe(), after the answer `data` arrived: the account is put over the stored one with
\* the same reddit_id, or added under a new key
SaveAccount(accounts, data, client) ==
  The({ IF \E i \in 1..Len(accounts) : accounts[i].reddit_id = data.id
        THEN [ i \in 1..Len(accounts) |->
                 IF i = (CHOOSE j \in 1..Len(accounts) :
                           /\ accounts[j].reddit_id = data.id
                           /\ \A k \in 1..(j - 1) : accounts[k].reddit_id # data.id)
                 THEN [accountData EXCEPT !.id = accounts[i].id]
                 ELSE accounts[i] ]
        ELSE Append(accounts, [accountData EXCEPT !.id = Len(accounts) + 1]) :
        accountData \in { [ id |-> 0, reddit_username |-> data.name, reddit_id |-> data.id,
                            is_primary |-> (Len(accounts) = 0),
                            access_token |-> client.accessToken,
                            token_expiry |-> client.tokenExpiry ] } })

(***************************************************************************)
(* The schedule API of the backend (routes/schedule)                       *)
(***************************************************************************)
MaxScheduled == 2
MaxRequests == 3
\* UPDATE scheduled_posts ... WHERE id = $1 AND user_id = $2: the rows of that owner
OwnRows(table, id, userId) ==
  {i \in 1..Len(table) : table[i].id = id /\ Some(table[i].user_id) = userId}
\* the same UPDATE without the condition on the status
CancellableRowsAnyStatus(table, id, userId) == OwnRows(table, id, userId)
\* ... AND status = 'scheduled'
CancellableRows(table, id, userId) ==
  {i \in OwnRows(table, id, userId) : table[i].status = "scheduled"}
\* POST /api/schedule
PostSchedule(table, userId, fieldsGiven, queryOk) ==
  IF userId = Null THEN [res |-> Failure(401, "Not authenticated"), table |-> table]
  ELSE IF ~fieldsGiven THEN [res |-> Failure(400, "Missing required fields"), table |-> table]
  ELSE IF ~queryOk THEN [res |-> Failure(500, "Failed to create scheduled post"), table |-> table]
  ELSE [ res |-> Respond(200, [id |-> Some(Len(table) + 1), status |-> Some("scheduled")]),
         table |-> Append(table, [id |-> Len(table) + 1, user_id |-> userId[1], status |-> "scheduled"]) ]
\* DELETE /api/schedule/:id
DeleteSchedule(table, id, userId, queryOk) ==
  IF ~queryOk THEN [res |-> Failure(500, "Failed to cancel scheduled post"), table |-> table]
  ELSE IF CancellableRows(table, id, userId) = {}
  THEN [res |-> Failure(404, "Scheduled post not found or already processed"), table |-> table]
  ELSE [ res |-> Respond(200, [success |-> Some(TRUE)]),
         table |-> [ i \in 1..Len(table) |->
                       IF i \in CancellableRows(table, id, userId)
                       THEN [table[i] EXCEPT !.status = "cancelled"]
                       ELSE table[i] ] ]

(***************************************************************************)
(* The subreddits API of the backend (backend/src/routes/subreddits.js)    *)
(***************************************************************************)
\* the number of requests to the subreddits API in a behaviour
MaxRouted == 2
\* the routes in the order router.get/post/delete registers them
Routes ==
  << [method |-> "GET", pattern |-> <<>>, handler |-> "GET /"],
     [method |-> "GET", pattern |-> <<":id">>, handler |-> "GET /:id"],
     [method |-> "GET", pattern |-> <<"search">>, handler |-> "GET /search"],
     [method |-> "GET", pattern |-> <<":id", "similar">>, handler |-> "GET /:id/similar"],
     [method |-> "POST", pattern |-> <<":id", "track">>, handler |-> "POST /:id/track"],
     [method |-> "DELETE", pattern |-> <<":id", "track">>, handler |-> "DELETE /:id/track"],
     [method |-> "GET", pattern |-> <<"tracked">>, handler |-> "GET /tracked"] >>
\* a route takes a request of its method whose path has its segments; :id stands for any
Takes(route, method, path) ==
  /\ route.method = method
  /\ Len(route.pattern) = Len(path)
  /\ \A i \in 1..Len(path) : route.pattern[i] = ":id" \/ route.pattern[i] = path[i]
\* Express hands the request to the first registered route that takes it
Dispatch(routes, method, path) ==
  IF \E k \in 1..Len(routes) : Takes(routes[k], method, path)
  THEN routes[CHOOSE k \in 1..Len(routes) :
                /\ Takes(routes[k], method, path)
                /\ \A j \in 1..(k - 1) : ~Takes(routes[j], method, path)].handler
  ELSE "none"

\* if (niche), if (search), ...: a query parameter that is present and not empty
Given(v) == v # Null /\ v # Some(<<>>)
\* the conditions the list query appends, each with one parameter
Applied(query) ==
  {f \in {"niche", "minSubscribers", "maxKarma", "maxAge", "search"} : Given(query[f])}
  \cup {f \in {"requiresVerification"} : query[f] # Null}
\* one condition of the WHERE clause on one row
Holds(f, query, row) ==
  CASE f = "niche" -> query.niche[1] \in row.niche_tags
    [] f = "minSubscribers" -> row.subscribers >= parseInt(query.minSubscribers[1])
    [] f = "maxKarma" -> row.min_karma = Null \/ row.min_karma[1] <= parseInt(query.maxKarma[1])
    [] f = "maxAge" ->
         row.min_account_age_days = Null \/ row.min_account_age_days[1] <= parseInt(query.maxAge[1])
    [] f = "requiresVerification" ->
         row.requires_verification = (query.requiresVerification[1] = <<"t", "r", "u", "e">>)
    [] f = "search" -> includes(toLowerCase(row.name), toLowerCase(query.search[1]))
\* ORDER BY engagement_score DESC NULLS LAST, subscribers DESC
Precedes(a, b) ==
  IF a.engagement_score # b.engagement_score
  THEN b.engagement_score = Null
       \/ (a.engagement_score # Null /\ a.engagement_score[1] > b.engagement_score[1])
  ELSE a.subscribers > b.subscribers
Ordered(rows) ==
  The({ [i \in 1..Len(rows) |-> rows[p[i]]] :
        p \in { q \in [1..Len(rows) -> 1..Len(rows)] :
                  /\ \A i, j \in 1..Len(rows) : i # j => q[i] # q[j]
                  /\ \A i, j \in 1..Len(rows) :
                       i < j => Precedes(rows[q[i]], rows[q[j]])
                                \/ (~Precedes(rows[q[j]], rows[q[i]]) /\ q[i] < q[j]) } })
\* LIMIT $n OFFSET $m
Page(rows, limit, offset) ==
  SubSeq(rows, offset + 1, IF offset + limit < Len(rows) THEN offset + limit ELSE Len(rows))
\* the parameters the count statement refers to: $1 for niche, the next one for
\* minSubscribers; the other filters are not added to it
CountPlaceholders(query) == Applied(query) \cap {"niche", "minSubscribers"}
\* GET /api/subreddits: the page, then the count; the count statement is sent with the
\* parameters of all applied filters, and the database refuses a statement that is sent
\* with more parameters than it refers to
ListSubreddits(table, query, queryOk) ==
  IF ~queryOk \/ Cardinality(Applied(query)) # Cardinality(CountPlaceholders(query))
  THEN Failure(500, "Failed to get subreddits")
  ELSE The({ [ status |-> 200,
               body |-> [ subreddits |-> Some(Page(Ordered(SelectSeq(table, LAMBDA row :
                                           \A f \in Applied(query) : Holds(f, query, row))),
                                              limit, offset)),
                          total |-> Some(Cardinality({ i \in 1..Len(table) :
                                      \A f \in CountPlaceholders(query) : Holds(f, query, table[i]) })),
                          limit |-> Some(limit), offset |-> Some(offset) ] ] :
             limit \in {IF query.limit = Null THEN 100 ELSE parseInt(query.limit[1])},
             offset \in {IF query.offset = Null THEN 0 ELSE parseInt(query.offset[1])} })
\* the ids that have the form of a UUID; a statement comparing the id column with
\* anything else fails
Uuids == {"id-1", "id-2", "id-3", "id-9"}
\* GET /api/subreddits/:id
GetSubreddit(table, id, queryOk) ==
  IF ~queryOk \/ id \notin Uuids THEN Failure(500, "Failed to get subreddit")
  ELSE IF \A i \in 1..Len(table) : table[i].id # id THEN Failure(404, "Subreddit not found")
  ELSE [status |-> 200, body |-> SelectSeq(table, LAMBDA row : row.id = id)[1]]
\* GET /api/subreddits/search
SearchSubreddits(table, query, queryOk) ==
  IF ~Given(query.q) THEN Failure(400, "Search query required")
  ELSE IF ~queryOk THEN Failure(500, "Search failed")
  ELSE [ status |-> 200,
         body |-> [rows |-> Some(SelectSeq(table, LAMBDA row :
                     includes(toLowerCase(row.name), toLowerCase(query.q[1]))))] ]
\* GET /api/subreddits/:id/similar: the other subreddits that share a niche tag
SimilarSubreddits(table, id, queryOk) ==
  IF ~queryOk \/ id \notin Uuids THEN Failure(500, "Failed to find similar subreddits")
  ELSE IF \A i \in 1..Len(table) : table[i].id # id THEN Failure(404, "Subreddit not found")
  ELSE [ status |-> 200,
         body |-> [rows |-> Some(SelectSeq(table, LAMBDA row :
                     /\ row.id # id
                     /\ \E other \in 1..Len(table) :
                          table[other].id = id /\ row.niche_tags \cap table[other].niche_tags # {}))] ]
\* DELETE /api/subreddits/:id/track
Untrack(tracked, userId, id, reddit_account_id, queryOk) ==
  IF ~queryOk THEN [status |-> 500, body |-> <<>>, table |-> tracked]
  ELSE [ status |-> 200, body |-> <<>>,
         table |-> SelectSeq(tracked, LAMBDA row :
                     ~(/\ row.user_id = userId /\ row.subreddit_id = id
                       /\ row.reddit_account_id = reddit_account_id)) ]

NoQuery ==
  [ niche |-> Null, minSubscribers |-> Null, maxKarma |-> Null, maxAge |-> Null,
    requiresVerification |-> Null, search |-> Null, limit |-> Null, offset |-> Null,
    q |-> Null ]
NoRequest == [n |-> 0, method |-> "none", path |-> <<>>, query |-> NoQuery, userId |-> Null,
    queryOk |-> TRUE]
AppIdle ==
  /\ component = NewComponent
  /\ redditClient = NewClient
  /\ localStorage = EmptyStorage
  /\ local_accounts = <<>>
  /\ authOut = NoAuth
  /\ scheduled_posts = <<>>
  /\ request = NoRequest
  /\ subreddits = <<>>

(***************************************************************************)
(* The inputs: what is asked for and what Reddit answers                   *)
(***************************************************************************)
MaxBatch == 2


\* names a caller passes to scrapeSubreddit and scrapeMultiple
RequestNames == {<<"t", "i", "n", "y", "f", "e", "e", "t">>, <<"p", "i", "c", "s">>}

\* body of /r/<name>/about.json: Reddit looks the name up without regard to case and
\* answers with the subreddit's own spelling
AboutData(name) ==
  IF toLowerCase(name) = <<"t", "i", "n", "y", "f", "e", "e", "t">>
  THEN [ display_name |-> <<"T", "i", "n", "y", "F", "e", "e", "t">>, display_name_prefixed |-> <<"r", "/", "T", "i", "n", "y", "F", "e", "e", "t">>,
         description |-> <<>>, public_description |-> <<>> ]
  ELSE [ display_name |-> name, display_name_prefixed |-> <<"r", "/">> \o name,
         description |-> <<"B", "e", " ", "c", "i", "v", "i", "l">>, public_description |-> <<"R", "e", "a", "l", " ", "p", "h", "o", "t", "o", "s">> ]

Rule(short_name, description, violation_reason) ==
  [short_name |-> short_name, description |-> description, violation_reason |-> violation_reason]
Post(score, num_comments, created_utc) ==
  [score |-> score, num_comments |-> num_comments, created_utc |-> created_utc]

RuleProfileLinks == Rule(<<"P", "r", "o", "m", "o", "t", "i", "o", "n">>, <<"L", "i", "n", "k", "s", " ", "o", "n", "l", "y", " ", "i", "n", " ", "p", "r", "o", "f", "i", "l", "e">>, <<"S", "p", "a", "m">>)
RuleKarma == Rule(<<"K", "a", "r", "m", "a">>, <<>>, <<"K", "a", "r", "m", "a", " ", "u", "n", "d", "e", "r", " ", "5", "0">>)
SomeFlairs == <<[text |-> <<>>], [text |-> <<"O", "C">>]>>
SomePosts == <<Post(10, 2, 0), Post(21, 5, 82800)>>

Responses(name, statuses, rules, flairs, hot, top, save) ==
  { [about |-> [status |-> st, data |-> AboutData(name)],
     rules |-> r, flairs |-> f, hot |-> h, top |-> t, save |-> s] :
    st \in statuses, r \in rules, f \in flairs, h \in hot, t \in top, s \in save }

\* the answers drawn in the state machine: every optional request fails, or every one
\* succeeds; the subreddit is there or is not; the write succeeds or fails
FewResponses(name) ==
  Responses(name, {200, 404}, {Rejected("rules")}, {Rejected("flairs")}, {Rejected("hot")},
            {Rejected("top")}, {TRUE})
  \cup
  Responses(name, {200}, {Fulfilled(<<RuleProfileLinks>>)}, {Fulfilled(SomeFlairs)},
            {Fulfilled(SomePosts)}, {Fulfilled(SomePosts)}, {TRUE})

\* the answers drawn when scrapeSubreddit is exercised call by call
ManyResponses(name) ==
  Responses(name, {200, 403},
            {Rejected("rules"), Fulfilled(<<>>), Fulfilled(<<RuleProfileLinks>>), Fulfilled(<<RuleKarma>>)},
            {Rejected("flairs"), Fulfilled(SomeFlairs)},
            {Rejected("hot"), Fulfilled(<<>>), Fulfilled(SomePosts)},
            {Rejected("top"), Fulfilled(SomePosts)},
            BOOLEAN)

\* a catch block that logs the error and returns normally
RethrowSwallowed(error, rows) == [threw |-> FALSE, error |-> "", data |-> NoData, sink |-> rows]
\* the catch block of scrapeSubreddit: log, then throw the error on
Rethrow(error, rows) == [threw |-> TRUE, error |-> error, data |-> NoData, sink |-> rows]

\* SubredditScraper.scrapeSubreddit: what the call returns or throws, and the table after it
ServerScrapeSubreddit(subredditName, up, rows, zone) ==
  IF up.about.status # 200 THEN Rethrow(StatusText(up.about.status), rows)
  ELSE The({ IF up.save
             THEN [threw |-> FALSE, error |-> "", data |-> Some(data), sink |-> saveToDatabase(rows, data)]
             ELSE Rethrow("query failed", rows) :
             data \in {ServerProfile(up, zone)} })

\* ClientSubredditScraper.scrapeSubreddit
ClientScrapeSubreddit(name, up, rows, zone) ==
  IF ~getSubreddit(up.about).ok THEN Rethrow(getSubreddit(up.about).error, rows)
  ELSE The({ IF up.save
             THEN [threw |-> FALSE, error |-> "", data |-> Some(data), sink |-> saveSubreddit(rows, data)]
             ELSE Rethrow("put failed", rows) :
             data \in {ClientProfile(up, zone)} })

scrapeSubreddit(rt, name, up, rows, zone) ==
  IF rt = "server" THEN ServerScrapeSubreddit(name, up, rows, zone)
  ELSE ClientScrapeSubreddit(name, up, rows, zone)

\* the lists of at most n elements of S_
ListsOf(S_, n) == UNION {[1..k -> S_] : k \in 0..n}

(***************************************************************************)
(* State machine                                                           *)
(***************************************************************************)
NoCall == [name |-> <<>>, threw |-> FALSE, error |-> "", data |-> NoData, status |-> 0]
NoResults == [success |-> <<>>, failed |-> <<>>]

NotCalled == [called |-> FALSE, v |-> <<>>]
Returned(v) == [called |-> TRUE, v |-> v]
DerivationIdle == arg = [fn |-> "none"] /\ srvOut = NotCalled /\ cliOut = NotCalled
BatchIdle ==
  /\ bNames = <<>> /\ bIdx = 0 /\ bPc = "idle" /\ results = NoResults
  /\ started = <<>> /\ nFinished = 0 /\ nDelays = 0

\* the DataService not initialised, no request sent, no account connected
ServicesIdle == backendUp = FALSE /\ DataIdle /\ RateIdle /\ AccountsIdle /\ AppIdle

Init ==
  /\ runtime \in Runtimes
  /\ tz \in TimeZones
  /\ sink = <<>>
  /\ ret = NoCall
  /\ BatchIdle
  /\ DerivationIdle
  /\ ServicesIdle

batchVars == <<bNames, bIdx, bPc, results, started, nFinished, nDelays>>
deriveVars == <<arg, srvOut, cliOut>>

\* a caller awaits scrapeSubreddit(name) on its own
Scrape(name, up) ==
  /\ bPc = "idle"
  /\ \E r \in {scrapeSubreddit(runtime, name, up, sink, tz)} :
        /\ sink' = r.sink
        /\ ret' = [name |-> name, threw |-> r.threw, error |-> r.error, data |-> r.data, status |-> up.about.status]
  /\ UNCHANGED <<runtime, tz, batchVars, deriveVars, dataVars, rateVars, accountVars, appVars>>

\* a try/catch that records the successes only
RecordSuccessOnly(res, name, r) ==
  IF r.threw THEN res ELSE [res EXCEPT !.success = Append(@, name)]
\* the try/catch of scrapeMultiple around one scrapeSubreddit call
Record(res, name, r) ==
  IF r.threw
  THEN [res EXCEPT !.failed = Append(@, [name |-> name, error |-> r.error])]
  ELSE [res EXCEPT !.success = Append(@, name)]

\* a driver that goes on to the next entry at once
DelayAfterNever(rt, i, n) == FALSE
\* whether scrapeMultiple waits after finishing list position i (0-based) of n:
\* the server-side driver skips the wait after the last entry, the browser-side one never does
DelayAfter(rt, i, n) == IF rt = "server" THEN i < n - 1 ELSE TRUE

\* scrapeMultiple is called: it runs up to the first await, inside the first scrapeSubreddit
StartBatch(names) ==
  /\ bPc = "idle"
  /\ bNames' = names
  /\ bIdx' = 0
  /\ results' = NoResults
  /\ nFinished' = 0
  /\ nDelays' = 0
  /\ IF Len(names) > 0
     THEN started' = <<0>> /\ bPc' = "scraping"
     ELSE started' = <<>> /\ bPc' = "done"
  /\ UNCHANGED <<runtime, tz, sink, ret, deriveVars, dataVars, rateVars, accountVars, appVars>>

\* the awaited scrapeSubreddit settles; the driver records it and goes on to the delay,
\* to the next entry, or to the end of the loop
EndScrape(up) ==
  /\ bPc = "scraping"
  /\ \E name \in {bNames[bIdx + 1]} : \E r \in {scrapeSubreddit(runtime, name, up, sink, tz)} :
        /\ sink' = r.sink
        /\ ret' = [name |-> name, threw |-> r.threw, error |-> r.error, data |-> r.data, status |-> up.about.status]
        /\ results' = Record(results, name, r)
  /\ nFinished' = nFinished + 1
  /\ IF DelayAfter(runtime, bIdx, Len(bNames))
     THEN bPc' = "delay" /\ UNCHANGED <<bIdx, started>>
     ELSE /\ bIdx' = bIdx + 1
          /\ IF bIdx + 1 < Len(bNames)
             THEN started' = Append(started, bIdx + 1) /\ bPc' = "scraping"
             ELSE UNCHANGED started /\ bPc' = "done"
  /\ UNCHANGED <<runtime, tz, bNames, nDelays, deriveVars, dataVars, rateVars, accountVars, appVars>>

\* the timer of the inter-request delay fires; the loop goes on
Delay ==
  /\ bPc = "delay"
  /\ nDelays' = nDelays + 1
  /\ bIdx' = bIdx + 1
  /\ IF bIdx + 1 < Len(bNames)
     THEN started' = Append(started, bIdx + 1) /\ bPc' = "scraping"
     ELSE UNCHANGED started /\ bPc' = "done"
  /\ UNCHANGED <<runtime, tz, sink, ret, bNames, results, nFinished, deriveVars, dataVars, rateVars, accountVars, appVars>>

Next ==
  \/ \E name \in RequestNames : \E up \in FewResponses(name) : Scrape(name, up)
  \/ \E names \in ListsOf(RequestNames, MaxBatch) : StartBatch(names)
  \/ bPc = "scraping" /\ \E up \in FewResponses(bNames[bIdx + 1]) : EndScrape(up)
  \/ Delay

Spec == Init /\ [][Next]_vars


(***************************************************************************)
(* The derivation functions, applied one call at a time: the input is      *)
(* drawn in the initial state and the call applies the server-side and the *)
(* browser-side implementation to it.                                      *)
(***************************************************************************)
MaxFrags == 2
MaxPosts == 4
MaxNameParts == 2

\* pieces of sidebar and rule text
Fragments ==
  { <<"5", "0", " ", "k", "a", "r", "m", "a">>, <<"K", "a", "r", "m", "a", " ", "5", "0">>, <<"0", " ", "k", "a", "r", "m", "a">>, <<"\n">>, <<" ">>, <<"7", " ", "d", "a", "y", "s", " ", "o", "l", "d">>, <<"a", "c", "c", "o", "u", "n", "t", " ", "7", " ", "d", "a", "y", "s">>,
    <<"N", "o", " ", "l", "i", "n", "k", "s">>, <<"l", "i", "n", "k", "s", " ", "i", "n", " ", "p", "r", "o", "f", "i", "l", "e">>, <<"v", "e", "r", "i", "f", "i", "e", "d">>, <<"1", " ", "p", "o", "s", "t", " ", "p", "e", "r", " ", "d", "a", "y">>, <<"2", " ", "p", "o", "s", "t", "s", " ", "p", "e", "r", " ", "3", " ", "h", "o", "u", "r", "s">>,
    <<"3", " ", "p", "o", "s", "t", "s", " ", "p", "e", "r", " ", "2", " ", "d", "a", "y", "s">>, <<"1", " ", "s", "u", "b", "m", "i", "s", "s", "i", "o", "n", " ", "p", "e", "r", " ", "h", "o", "u", "r">> }

\* the texts made of the fragments of one list, in order
Concat(parts) ==
  LET f[k \in 0..Len(parts)] == IF k = 0 THEN <<>> ELSE f[k-1] \o parts[k]
  IN f[Len(parts)]

RulesTexts == {Concat(parts) : parts \in ListsOf(Fragments, MaxFrags)}

\* posts of a listing: Thursday 1 January 1970 00:00, 01:00, 02:00, 03:00 and 00:30 UTC,
\* and Friday 01:00 UTC
PostChoices ==
  { Post(10, 2, 0), Post(21, 5, 3600), Post(5, 0, 7200), Post(8, 1, 10800), Post(7, 3, 1800),
    Post(0, 0, 90000) }

Listings == {Rejected("listing")} \cup {Fulfilled(posts) : posts \in ListsOf(PostChoices, MaxPosts)}

NameParts == {<<"T", "i", "n", "y">>, <<"F", "e", "e", "t">>, <<"P", "i", "c", "s">>, <<"f", "i", "t">>, <<"r", "/">>}
Descriptions == {<<>>, <<"R", "e", "a", "l", " ", "p", "h", "o", "t", "o", "s">>, <<"N", "e", "w", "s">>}
Subreddits ==
  { [display_name |-> Concat(parts), public_description |-> d] :
    parts \in ListsOf(NameParts, MaxNameParts), d \in Descriptions }

InitDerive ==
  /\ runtime = "both"
  /\ sink = <<>>
  /\ ret = NoCall
  /\ BatchIdle
  /\ srvOut = NotCalled
  /\ cliOut = NotCalled
  /\ ServicesIdle
  /\ \/ /\ tz = 0
        /\ \/ \E t \in RulesTexts : \E f \in {Rejected("flairs"), Fulfilled(SomeFlairs)} :
                arg = [fn |-> "parseRules", rulesText |-> t, flairs |-> f]
           \/ \E l \in Listings : arg = [fn |-> "calculateEngagement", listing |-> l]
           \/ \E s \in Subreddits : arg = [fn |-> "inferNicheTags", subreddit |-> s]
     \/ /\ tz \in TimeZones
        /\ \/ \E l \in Listings : arg = [fn |-> "analyzeBestPostingTimes", listing |-> l]
           \/ \E name \in RequestNames : \E up \in ManyResponses(name) :
                arg = [fn |-> "scrapeSubreddit", name |-> name, up |-> up]

\* parseRules(rulesText) of both scrapers
CallParseRules ==
  /\ arg.fn = "parseRules" /\ ~srvOut.called
  /\ srvOut' = Returned(ServerParseRules(arg.rulesText, arg.flairs))
  /\ cliOut' = Returned(ClientParseRules(arg.rulesText))
  /\ UNCHANGED <<runtime, tz, sink, ret, batchVars, arg, dataVars, rateVars, accountVars, appVars>>

\* calculateEngagement of both scrapers, the listing request answered with arg.listing
CallCalculateEngagement ==
  /\ arg.fn = "calculateEngagement" /\ ~srvOut.called
  /\ srvOut' = Returned(ServerCalculateEngagement(arg.listing))
  /\ cliOut' = Returned(ClientCalculateEngagement(getRecentPosts(arg.listing)))
  /\ UNCHANGED <<runtime, tz, sink, ret, batchVars, arg, dataVars, rateVars, accountVars, appVars>>

\* analyzeBestPostingTimes of both scrapers
CallAnalyzeBestPostingTimes ==
  /\ arg.fn = "analyzeBestPostingTimes" /\ ~srvOut.called
  /\ srvOut' = Returned(ServerAnalyzeBestPostingTimes(arg.listing, tz))
  /\ cliOut' = Returned(ClientAnalyzeBestPostingTimes(getTopPosts(arg.listing), tz))
  /\ UNCHANGED <<runtime, tz, sink, ret, batchVars, arg, dataVars, rateVars, accountVars, appVars>>

\* inferNicheTags of both scrapers
CallInferNicheTags ==
  /\ arg.fn = "inferNicheTags" /\ ~srvOut.called
  /\ srvOut' = Returned(inferNicheTags(arg.subreddit))
  /\ cliOut' = Returned(ClientInferNicheTags(arg.subreddit))
  /\ UNCHANGED <<runtime, tz, sink, ret, batchVars, arg, dataVars, rateVars, accountVars, appVars>>

\* scrapeSubreddit of both scrapers, each writing to an empty store of its own
CallScrapeSubreddit ==
  /\ arg.fn = "scrapeSubreddit" /\ ~srvOut.called
  /\ srvOut' = Returned(ServerScrapeSubreddit(arg.name, arg.up, <<>>, tz))
  /\ cliOut' = Returned(ClientScrapeSubreddit(arg.name, arg.up, <<>>, tz))
  /\ UNCHANGED <<runtime, tz, sink, ret, batchVars, arg, dataVars, rateVars, accountVars, appVars>>

NextDerive ==
  \/ CallParseRules
  \/ CallCalculateEngagement
  \/ CallAnalyzeBestPostingTimes
  \/ CallInferNicheTags
  \/ CallScrapeSubreddit

SpecDerive == InitDerive /\ [][NextDerive]_vars

(***************************************************************************)
(* The DataService, the rate limiter and the accounts API as state         *)
(* machines; the scrapers rest while they run                              *)
(***************************************************************************)
ScraperIdle ==
  /\ runtime = "client" /\ tz = 0 /\ sink = <<>> /\ ret = NoCall
  /\ BatchIdle /\ DerivationIdle

\* DataService.init(): localDB.init(), then checkBackend() sets the flag from the
\* answer to GET /health
DataServiceInit(healthy) ==
  /\ backendAvailable' = Some(checkBackend(backendUp, healthy))
  /\ UNCHANGED <<backendUp, user_subreddits, tracked_subreddits, opOut>>
  /\ UNCHANGED <<scraperVars, appVars, rateVars, accountVars>>

\* the backend starts or stops answering
BackendChanges ==
  /\ backendUp' = ~backendUp
  /\ UNCHANGED <<backendAvailable, user_subreddits, tracked_subreddits, opOut>>
  /\ UNCHANGED <<scraperVars, appVars, rateVars, accountVars>>

\* one of getSubreddits, getSubreddit, getRedditAccounts, getContent, addContent,
\* getPostedContent, called after init(); status: the backend's answer if it is reached
DataOperation(op, status) ==
  /\ backendAvailable # Null
  /\ opOut' =
       IF backendAvailable = Some(TRUE)
       THEN [ op |-> op, servedBy |-> "backend", reachable |-> backendUp,
              r |-> apiRequest(backendAvailable, backendUp, [status |-> status, body |-> <<>>]),
              args |-> Null ]
       ELSE [ op |-> op, servedBy |-> "local", reachable |-> backendUp,
              r |-> Fulfilled(<<>>), args |-> Null ]
  /\ UNCHANGED <<backendUp, backendAvailable, user_subreddits, tracked_subreddits>>
  /\ UNCHANGED <<scraperVars, appVars, rateVars, accountVars>>

\* trackSubreddit(subredditName, accountId, { notes })
trackSubreddit(subredditName, accountId, notes, queryOk) ==
  /\ backendAvailable # Null
  /\ IF backendAvailable = Some(TRUE)
     THEN \E res \in {PostTrack(user_subreddits, UserId, subredditName, accountId, notes, queryOk)} :
            /\ user_subreddits' = IF backendUp THEN res.table ELSE user_subreddits
            /\ opOut' = [ op |-> "trackSubreddit", servedBy |-> "backend", reachable |-> backendUp,
                          r |-> apiRequest(backendAvailable, backendUp, res),
                          args |-> Some([name |-> subredditName, account |-> accountId, notes |-> notes]) ]
            /\ UNCHANGED tracked_subreddits
     ELSE /\ Len(tracked_subreddits) < MaxTracked
          /\ tracked_subreddits' = LocalTrackSubreddit(tracked_subreddits, subredditName, accountId, notes)
          /\ opOut' = [ op |-> "trackSubreddit", servedBy |-> "local", reachable |-> backendUp,
                        r |-> Fulfilled(<<Len(tracked_subreddits) + 1>>),
                        args |-> Some([name |-> subredditName, account |-> accountId, notes |-> notes]) ]
          /\ UNCHANGED user_subreddits
  /\ UNCHANGED <<backendUp, backendAvailable>>
  /\ UNCHANGED <<scraperVars, appVars, rateVars, accountVars>>

\* getTrackedSubreddits()
getTrackedSubreddits(queryOk) ==
  /\ backendAvailable # Null
  /\ opOut' =
       IF backendAvailable = Some(TRUE)
       THEN [ op |-> "getTrackedSubreddits", servedBy |-> "backend", reachable |-> backendUp,
              r |-> apiRequest(backendAvailable, backendUp, GetTracked(user_subreddits, UserId, queryOk)),
              args |-> Null ]
       ELSE [ op |-> "getTrackedSubreddits", servedBy |-> "local", reachable |-> backendUp,
              r |-> Fulfilled(tracked_subreddits), args |-> Null ]
  /\ UNCHANGED <<backendUp, backendAvailable, user_subreddits, tracked_subreddits>>
  /\ UNCHANGED <<scraperVars, appVars, rateVars, accountVars>>

InitData ==
  /\ ScraperIdle
  /\ AppIdle
  /\ backendUp \in BOOLEAN
  /\ DataIdle
  /\ RateIdle
  /\ AccountsIdle

NextData ==
  \/ \E healthy \in BOOLEAN : DataServiceInit(healthy)
  \/ BackendChanges
  \/ \E op \in DataOps : \E status \in {200, 500} : DataOperation(op, status)
  \/ \E name \in TrackNames : \E acct \in AccountIds : \E notes \in NotesOptions :
       \E queryOk \in BOOLEAN : trackSubreddit(name, acct, notes, queryOk)
  \/ \E queryOk \in BOOLEAN : getTrackedSubreddits(queryOk)

SpecData == InitData /\ [][NextData]_vars

\* caller c calls fetchRedditJson(url): waitForRateLimit runs up to its await; when there
\* is nothing to wait for, lastRequestTime is set and the request goes out in the same instant
Call(c) ==
  /\ callers[c].pc = "idle"
  /\ Len(sent) + Cardinality({d \in Callers : callers[d].pc = "waiting"}) < MaxSent
  /\ \E sleep \in {SleepTime(now, lastRequestTime)} :
       IF sleep > 0
       THEN /\ callers' = [callers EXCEPT ![c] = [pc |-> "waiting", wake |-> now + sleep]]
            /\ UNCHANGED <<lastRequestTime, sent>>
       ELSE /\ lastRequestTime' = now
            /\ sent' = Append(sent, now)
            /\ UNCHANGED callers
  /\ UNCHANGED <<now, scraperVars, appVars, dataVars, accountVars>>

\* the timer of caller c fires, at its time or later: lastRequestTime is set and the
\* request goes out
Wake(c) ==
  /\ callers[c].pc = "waiting"
  /\ now >= callers[c].wake
  /\ lastRequestTime' = now
  /\ sent' = Append(sent, now)
  /\ callers' = [callers EXCEPT ![c] = Resting]
  /\ UNCHANGED <<now, scraperVars, appVars, dataVars, accountVars>>

\* time passes
Advance ==
  /\ now < MaxTime
  /\ now' = now + Tick
  /\ UNCHANGED <<lastRequestTime, callers, sent, scraperVars, appVars, dataVars, accountVars>>

InitRate ==
  /\ ScraperIdle
  /\ AppIdle
  /\ backendUp = FALSE
  /\ DataIdle
  /\ RateIdle
  /\ AccountsIdle

NextRate ==
  \/ \E c \in Callers : Call(c)
  \/ \E c \in Callers : Wake(c)
  \/ Advance

SpecRate == InitRate /\ [][NextRate]_vars

\* GET /api/auth/reddit/callback: Reddit hands over the tokens of account `name`
RedditCallback(userId, name, karma) ==
  /\ reddit_accounts' = StoreAccount(reddit_accounts, userId, name, karma)
  /\ UNCHANGED <<apiResponse, scraperVars, appVars, dataVars, rateVars>>

\* a route that reads: GET /, GET /:id, GET /:id/stats
Answer(route, res) ==
  /\ apiResponse' = [route |-> route, status |-> res.status, body |-> res.body]
  /\ UNCHANGED <<reddit_accounts, scraperVars, appVars, dataVars, rateVars>>
\* a route that writes: DELETE /:id, POST /:id/check-health
AnswerAndStore(route, out) ==
  /\ apiResponse' = [route |-> route, status |-> out.res.status, body |-> out.res.body]
  /\ reddit_accounts' = out.table
  /\ UNCHANGED <<scraperVars, appVars, dataVars, rateVars>>

RequestIds == 1..Cardinality(Connectable)
InitAccounts ==
  /\ ScraperIdle
  /\ AppIdle
  /\ backendUp = TRUE
  /\ DataIdle
  /\ RateIdle
  /\ AccountsIdle

NextAccounts ==
  \/ \E account \in Connectable : RedditCallback(account[1], account[2], 0)
  \/ \E userId \in AccountUsers \cup {Null} : \E queryOk \in BOOLEAN :
       Answer("GET /", GetAccounts(reddit_accounts, userId, queryOk))
  \/ \E id \in RequestIds : \E userId \in AccountUsers \cup {Null} : \E queryOk \in BOOLEAN :
       Answer("GET /:id", GetAccount(reddit_accounts, id, userId, queryOk))
  \/ \E id \in RequestIds : \E userId \in AccountUsers \cup {Null} : \E queryOk \in BOOLEAN :
       AnswerAndStore("DELETE /:id", DeleteAccount(reddit_accounts, id, userId, queryOk))
  \/ \E id \in RequestIds : \E userId \in AccountUsers \cup {Null} : \E queryOk \in BOOLEAN :
       \E me \in {Null, Some([link_karma |-> 5, comment_karma |-> 1])} :
         \E isShadowbanned \in BOOLEAN :
           AnswerAndStore("POST /:id/check-health",
                          CheckHealth(reddit_accounts, id, userId, queryOk, me, isShadowbanned))
  \/ \E id \in RequestIds : \E userId \in AccountUsers \cup {Null} : \E queryOk \in BOOLEAN :
       Answer("GET /:id/stats", GetStats(reddit_accounts, id, userId, queryOk))

SpecAccounts == InitAccounts /\ [][NextAccounts]_vars

(***************************************************************************)
(* The component: mounted(), the name input, the Scrape button             *)
(***************************************************************************)
ScrapeNames == {"", "pics", "feet"}
\* the browser of a user who has connected the Reddit account `me` before
ConnectedStorage == [EmptyStorage EXCEPT !.reddit_access_token = Some("token"),
                                         !.reddit_token_expiry = Some(requestDelay + TokenLifetime)]

\* mounted(): dataService.init() (checkBackend, loadToken), then backendStatus,
\* authenticated, loadAccount() and loadSubreddits(); dataService.js defines no property
\* redditClient, so the optional chain gives undefined unless another module exposes it
Mount ==
  /\ ~component.mounted
  /\ \E client \in {loadToken(redditClient, localStorage, now)} :
     \E available \in {checkBackend(backendUp, TRUE)} :
       /\ redditClient' = client
       /\ backendAvailable' = Some(available)
       /\ component' = [component EXCEPT !.mounted = TRUE,
                                         !.backendStatus = Some(available),
                                         !.authenticated =
                                            component.clientExposed /\ isAuthenticated(client, now)]
  /\ UNCHANGED <<backendUp, user_subreddits, tracked_subreddits, opOut>>
  /\ UNCHANGED <<localStorage, local_accounts, authOut, routeVars>>
  /\ UNCHANGED <<scraperVars, rateVars, accountVars>>

\* v-model="subredditToScrape": the user edits the name
EnterName(name) ==
  /\ component.mounted
  /\ component.subredditToScrape # name
  /\ component' = [component EXCEPT !.subredditToScrape = name]
  /\ UNCHANGED <<scraperVars, dataVars, rateVars, accountVars, authVars, routeVars>>

\* @click / @keyup.enter: scrapeSubreddit() up to its await, or to its early return
PressScrape ==
  /\ component.mounted
  /\ component.nScrapes < MaxScrapes
  /\ IF component.subredditToScrape = "" \/ ~component.authenticated
     THEN component' = [component EXCEPT
                          !.alert = "Please connect Reddit account first",
                          !.pressed = Some([name |-> component.subredditToScrape, started |-> FALSE])]
     ELSE component' = [component EXCEPT
                          !.scraping = TRUE,
                          !.pending = Append(@, component.subredditToScrape),
                          !.nScrapes = @ + 1,
                          !.pressed = Some([name |-> component.subredditToScrape, started |-> TRUE])]
  /\ UNCHANGED <<scraperVars, dataVars, rateVars, accountVars, authVars, routeVars>>

\* the awaited dataService.scrapeSubreddit(name) settles: the result is shown and the
\* list reloaded, or the error is alerted; finally scraping is false
ScrapeSettles(succeeds) ==
  /\ Len(component.pending) > 0
  /\ IF succeeds
     THEN component' = [component EXCEPT
                          !.scrapedData = Some(Head(component.pending)),
                          !.subreddits = @ \cup {Head(component.pending)},
                          !.scraping = FALSE,
                          !.pending = Tail(@)]
     ELSE component' = [component EXCEPT
                          !.alert = "Error scraping",
                          !.scraping = FALSE,
                          !.pending = Tail(@)]
  /\ UNCHANGED <<scraperVars, dataVars, rateVars, accountVars, authVars, routeVars>>

InitComponent ==
  /\ ScraperIdle
  /\ backendUp = FALSE /\ DataIdle /\ RateIdle /\ AccountsIdle
  /\ \E exposed \in BOOLEAN : component = [NewComponent EXCEPT !.clientExposed = exposed]
  /\ redditClient = NewClient
  /\ \/ localStorage = EmptyStorage /\ local_accounts = <<>>
     \/ /\ localStorage = ConnectedStorage
        /\ \E me \in RedditUsers :
             local_accounts = SaveAccount(<<>>, me, loadToken(NewClient, ConnectedStorage, now))
  /\ authOut = NoAuth
  /\ scheduled_posts = <<>> /\ request = NoRequest /\ subreddits = <<>>

NextComponent ==
  \/ Mount
  \/ \E name \in ScrapeNames : EnterName(name)
  \/ PressScrape
  \/ \E succeeds \in BOOLEAN : ScrapeSettles(succeeds)

SpecComponent == InitComponent /\ [][NextComponent]_vars

(***************************************************************************)
(* The client-side OAuth flow and the stored accounts                      *)
(***************************************************************************)
AuthStates == {"s1", "s2"}
\* the tokens Reddit issues, each to its owner
TokenOwner(token) ==
  CHOOSE me \in RedditUsers : (token = "token-a") = (me.name = "alice")
CallbackParams ==
  { [access_token |-> a, expires_in |-> e, state |-> s, error |-> x] :
      a \in {Null, Some("token-a"), Some("token-b")}, e \in {Some(3600)},
      s \in {Null} \cup {Some(st) : st \in AuthStates}, x \in {Null, Some("access_denied")} }

\* the user presses Connect: startAuth() keeps a state and leaves for reddit.com
StartAuth(state) ==
  /\ localStorage' = startAuth(localStorage, state)
  /\ UNCHANGED <<redditClient, local_accounts, authOut, component, routeVars>>
  /\ UNCHANGED <<scraperVars, dataVars, rateVars, accountVars>>

\* the page is loaded anew: a new RedditClient, then init() calls loadToken()
Reload ==
  /\ redditClient' = loadToken(NewClient, localStorage, now)
  /\ UNCHANGED <<localStorage, local_accounts, authOut, component, routeVars>>
  /\ UNCHANGED <<scraperVars, dataVars, rateVars, accountVars>>

\* the browser arrives at /auth/callback with params in the fragment, whoever sent it there
Callback(params) ==
  /\ \E out \in {handleCallback(redditClient, localStorage, params, now)} :
       /\ redditClient' = out.client
       /\ localStorage' = out.storage
       /\ authOut' = [ op |-> "handleCallback", r |-> out.r, params |-> params,
                       savedState |-> localStorage.reddit_auth_state,
                       before |-> [ memory |-> redditClient.accessToken,
                                    stored |-> localStorage.reddit_access_token ] ]
  /\ UNCHANGED <<local_accounts, component, routeVars>>
  /\ UNCHANGED <<scraperVars, dataVars, rateVars, accountVars>>

\* getMe(): api('/api/v1/me') throws without a valid token or when Reddit refuses;
\* otherwise the account of the token's owner is saved
GetMe(apiOk) ==
  /\ IF ~isAuthenticated(redditClient, now)
     THEN /\ authOut' = [NoAuth EXCEPT !.op = "getMe", !.r = Rejected("Not authenticated")]
          /\ UNCHANGED <<redditClient, local_accounts>>
     ELSE IF ~apiOk
     THEN /\ authOut' = [NoAuth EXCEPT !.op = "getMe", !.r = Rejected("Reddit API error")]
          /\ UNCHANGED <<redditClient, local_accounts>>
     ELSE \E data \in {TokenOwner(redditClient.accessToken[1])} :
            /\ redditClient' = [redditClient EXCEPT !.username = Some(data.name)]
            /\ local_accounts' = SaveAccount(local_accounts, data, redditClient)
            /\ authOut' = [NoAuth EXCEPT !.op = "getMe", !.r = Fulfilled(<<data.name>>)]
  /\ UNCHANGED <<localStorage, component, routeVars>>
  /\ UNCHANGED <<scraperVars, dataVars, rateVars, accountVars>>

InitAuth ==
  /\ ScraperIdle
  /\ backendUp = FALSE /\ DataIdle /\ RateIdle /\ AccountsIdle
  /\ AppIdle

NextAuth ==
  \/ \E state \in AuthStates : StartAuth(state)
  \/ Reload
  \/ \E params \in CallbackParams : Callback(params)
  \/ \E apiOk \in BOOLEAN : GetMe(apiOk)

SpecAuth == InitAuth /\ [][NextAuth]_vars

(***************************************************************************)
(* The schedule API: posts are created, processed by the worker, cancelled *)
(***************************************************************************)
ScheduleIds == 1..(MaxScheduled + 1)
\* a request arrives and is answered; a route that writes leaves the table out.table
Serve(method, path, query, userId, queryOk, out) ==
  /\ request.n < MaxRequests
  /\ request' = [ n |-> request.n + 1, method |-> method, path |-> path, query |-> query,
                  userId |-> userId, queryOk |-> queryOk ]
  /\ apiResponse' = [route |-> method, status |-> out.res.status, body |-> out.res.body]

CreateScheduled(userId, fieldsGiven, queryOk) ==
  /\ Len(scheduled_posts) < MaxScheduled
  /\ \E out \in {PostSchedule(scheduled_posts, userId, fieldsGiven, queryOk)} :
       /\ Serve("POST", <<>>, NoQuery, userId, queryOk, out)
       /\ scheduled_posts' = out.table
  /\ UNCHANGED <<reddit_accounts, subreddits, component, authVars>>
  /\ UNCHANGED <<scraperVars, dataVars, rateVars>>

CancelScheduled(id, userId, queryOk) ==
  /\ \E out \in {DeleteSchedule(scheduled_posts, id, userId, queryOk)} :
       /\ Serve("DELETE", <<id>>, NoQuery, userId, queryOk, out)
       /\ scheduled_posts' = out.table
  /\ UNCHANGED <<reddit_accounts, subreddits, component, authVars>>
  /\ UNCHANGED <<scraperVars, dataVars, rateVars>>

\* the posting worker takes up a scheduled post, and later marks it posted or failed
Process(i, status) ==
  /\ i \in 1..Len(scheduled_posts)
  /\ \/ scheduled_posts[i].status = "scheduled" /\ status = "posting"
     \/ scheduled_posts[i].status = "posting" /\ status \in {"posted", "failed"}
  /\ scheduled_posts' = [scheduled_posts EXCEPT ![i].status = status]
  /\ UNCHANGED <<request, subreddits, component, authVars>>
  /\ UNCHANGED <<scraperVars, dataVars, rateVars, accountVars>>

InitSchedule ==
  /\ ScraperIdle
  /\ backendUp = TRUE /\ DataIdle /\ RateIdle /\ AccountsIdle
  /\ AppIdle

NextSchedule ==
  \/ \E userId \in AccountUsers \cup {Null} : \E fieldsGiven, queryOk \in BOOLEAN :
       CreateScheduled(userId, fieldsGiven, queryOk)
  \/ \E id \in ScheduleIds : \E userId \in AccountUsers \cup {Null} : \E queryOk \in BOOLEAN :
       CancelScheduled(id, userId, queryOk)
  \/ \E i \in 1..MaxScheduled : \E status \in {"posting", "posted", "failed"} : Process(i, status)

SpecSchedule == InitSchedule /\ [][NextSchedule]_vars

(***************************************************************************)
(* The subreddits API: a request is dispatched to a route and answered     *)
(***************************************************************************)
\* the rows of the subreddits table
SomeSubreddits ==
  << [ id |-> "id-1", name |-> <<"t", "i", "n", "y", "f", "e", "e", "t">>, niche_tags |-> {<<"f", "e", "e", "t">>, <<"p", "e", "t", "i", "t", "e">>},
       subscribers |-> 5000, min_karma |-> Some(100), min_account_age_days |-> Null,
       requires_verification |-> TRUE, engagement_score |-> Some(50) ],
     [ id |-> "id-2", name |-> <<"p", "i", "c", "s">>, niche_tags |-> {},
       subscribers |-> 900, min_karma |-> Null, min_account_age_days |-> Some(30),
       requires_verification |-> FALSE, engagement_score |-> Null ],
     [ id |-> "id-3", name |-> <<"F", "e", "e", "t", "P", "i", "c", "s">>, niche_tags |-> {<<"f", "e", "e", "t">>},
       subscribers |-> 2000, min_karma |-> Some(500), min_account_age_days |-> Some(7),
       requires_verification |-> FALSE, engagement_score |-> Some(80) ] >>
\* the paths requested below /api/subreddits, as their segments
Paths ==
  { <<>>, <<"tracked">>, <<"search">>, <<"id-1">>, <<"id-9">>, <<"id-1", "similar">>,
    <<"id-1", "track">>, <<"id-1", "posts">> }
\* the query strings of a list request: each filter is absent or given
ListQueries ==
  { [ niche |-> niche, minSubscribers |-> minSubscribers, maxKarma |-> maxKarma,
      maxAge |-> maxAge, requiresVerification |-> requiresVerification,
      search |-> search, limit |-> page[1], offset |-> page[2], q |-> Null ] :
    niche \in {Null, Some(<<"f", "e", "e", "t">>)}, minSubscribers \in {Null, Some(<<"1", "0", "0", "0">>)},
    maxKarma \in {Null, Some(<<"2", "0", "0">>)}, maxAge \in {Null, Some(<<"1", "0">>)},
    requiresVerification \in {Null, Some(<<"t", "r", "u", "e">>)}, search \in {Null, Some(<<"F", "E", "E", "T">>)},
    page \in {<<Null, Null>>, <<Some(<<"1">>), Null>>, <<Some(<<"1">>), Some(<<"1">>)>>} }
SearchQueries == {NoQuery, [NoQuery EXCEPT !.q = Some(<<"p", "i", "c">>)]}
QueriesOf(method, path) ==
  IF method = "GET" /\ path = <<>> THEN ListQueries
  ELSE IF path = <<"search">> THEN SearchQueries
  ELSE {NoQuery}

\* the handler the router picks answers; a request no route takes gets Express's 404
Route(method, path, query, userId, queryOk) ==
  /\ request.n < MaxRouted
  /\ request' = [ n |-> request.n + 1, method |-> method, path |-> path, query |-> query,
                  userId |-> userId, queryOk |-> queryOk ]
  /\ \E handler \in {Dispatch(Routes, method, path)} :
     \E out \in { CASE handler = "GET /" -> ListSubreddits(subreddits, query, queryOk)
                    [] handler = "GET /:id" -> GetSubreddit(subreddits, path[1], queryOk)
                    [] handler = "GET /search" -> SearchSubreddits(subreddits, query, queryOk)
                    [] handler = "GET /:id/similar" -> SimilarSubreddits(subreddits, path[1], queryOk)
                    [] handler = "POST /:id/track" ->
                         PostTrack(user_subreddits, userId, path[1], "acc-1", Null, queryOk)
                    [] handler = "DELETE /:id/track" ->
                         Untrack(user_subreddits, userId, path[1], "acc-1", queryOk)
                    [] handler = "GET /tracked" -> GetTracked(user_subreddits, userId, queryOk)
                    [] OTHER -> [status |-> 404, body |-> <<>>] } :
       /\ apiResponse' = [route |-> handler, status |-> out.status, body |-> out.body]
       /\ user_subreddits' =
            IF handler \in {"POST /:id/track", "DELETE /:id/track"} THEN out.table
            ELSE user_subreddits
  /\ UNCHANGED <<backendUp, backendAvailable, tracked_subreddits, opOut>>
  /\ UNCHANGED <<reddit_accounts, scheduled_posts, subreddits, component, authVars>>
  /\ UNCHANGED <<scraperVars, rateVars>>

InitRoutes ==
  /\ ScraperIdle
  /\ backendUp = TRUE /\ DataIdle /\ RateIdle /\ AccountsIdle
  /\ component = NewComponent
  /\ redditClient = NewClient /\ localStorage = EmptyStorage
  /\ local_accounts = <<>> /\ authOut = NoAuth
  /\ scheduled_posts = <<>>
  /\ request = NoRequest
  /\ subreddits \in {<<>>, SomeSubreddits}

NextRoutes ==
  \E method \in {"GET", "POST", "DELETE"} : \E path \in Paths :
  \E query \in QueriesOf(method, path) : \E userId \in {Null, UserId} : \E queryOk \in BOOLEAN :
    Route(method, path, query, userId, queryOk)

SpecRoutes == InitRoutes /\ [][NextRoutes]_vars

(***************************************************************************)
(* Properties                                                              *)
(***************************************************************************)
\* the row a first save of data writes
StoredForm(rt, data) ==
  IF rt = "server" THEN saveToDatabase(<<>>, data)[1] ELSE saveSubreddit(<<>>, data)[1]

RowsNamed(name) == {k \in 1..Len(sink) : sink[k].name = name}

\* C1: upsert replaces the profile.  No two profiles of the sink share a name, and after a
\* successful scrape the sink holds exactly one profile of the scraped subreddit, every
\* field of which (requirements, the three link flags, posting frequency, flairs, rules
\* text and summary, engagement, best posting times, niche tags) is the value this scrape
\* derived.
UpsertReplacesProfile ==
  /\ \A j, k \in 1..Len(sink) : sink[j].name = sink[k].name => j = k
  /\ (ret.name # <<>> /\ ~ret.threw) =>
       /\ Cardinality(RowsNamed(ret.data[1].name)) = 1
       /\ \A k \in RowsNamed(ret.data[1].name) : sink[k] = StoredForm(runtime, ret.data[1])

\* C2: in every profile the sink holds, allows_links_in_profile_only = true implies that
\* allows_links_in_post and allows_links_in_comments are both false.
ProfileOnlyImpliesNoLinks ==
  \A k \in 1..Len(sink) :
    sink[k].allows_links_in_profile_only = Some(TRUE) =>
      ~sink[k].allows_links_in_post /\ ~sink[k].allows_links_in_comments

AllZero(engagement) ==
  /\ engagement.avg_upvotes = Zero
  /\ engagement.median_upvotes = Zero
  /\ engagement.avg_comments = Zero
  /\ engagement.engagement_score = Zero

\* C3: for the server-side and the browser-side calculateEngagement, an empty post sample
\* (no posts, or a failed listing request) gives avg_upvotes, median_upvotes, avg_comments
\* and engagement_score all the number 0.
EmptySampleGivesZeros ==
  (arg.fn = "calculateEngagement" /\ srvOut.called /\ (~arg.listing.ok \/ arg.listing.v = <<>>)) =>
    AllZero(srvOut.v) /\ AllZero(cliOut.v)

\* C4: batch failure isolation.  Every scrape that settles is recorded once, in
\* results.success when it completed and in results.failed with its error message when it
\* threw; when scrapeMultiple returns, every list position was attempted and
\* success.length + failed.length is the length of the list.
BatchFailureIsolation ==
  /\ [](bPc = "done" =>
          /\ Len(results.success) + Len(results.failed) = Len(bNames)
          /\ nFinished = Len(bNames)
          /\ started = [k \in 1..Len(bNames) |-> k - 1])
  /\ [][nFinished' = nFinished + 1 =>
          IF ret'.threw
          THEN results' = [results EXCEPT
                             !.failed = Append(@, [name |-> bNames[bIdx + 1], error |-> ret'.error])]
          ELSE results' = [results EXCEPT !.success = Append(@, bNames[bIdx + 1])]]_vars

\* a batch of two whose first scrape failed and whose second was still made, and succeeded
BatchFailureIsolationWitness ==
  /\ bPc = "done" /\ Len(bNames) = 2
  /\ Len(results.failed) = 1 /\ results.failed[1].name = bNames[1]
  /\ results.success = <<bNames[2]>>

\* C5: within one scrapeMultiple run the scrapes are strictly sequential in list order: at
\* most one is in flight, each list position is attempted once, and the scrape of the next
\* position starts only after the previous one has settled and the delay after it has
\* elapsed.
StrictlySequential ==
  /\ started = [k \in 1..Len(started) |-> k - 1]
  /\ Len(started) <= Len(bNames)
  /\ Len(started) - nFinished = (IF bPc = "scraping" THEN 1 ELSE 0)
  /\ bPc = "scraping" => nDelays = nFinished
  /\ bPc = "done" => Len(started) = Len(bNames)

\* the second scrape of a batch is in flight, after the first failed and the delay elapsed
StrictlySequentialWitness ==
  /\ bPc = "scraping" /\ started = <<0, 1>>
  /\ nFinished = 1 /\ nDelays = 1 /\ Len(results.failed) = 1

\* C6: a scrape whose fetch of the core subreddit metadata fails ends with the error thrown
\* to its caller, which the batch driver records in results.failed, and leaves the sink as
\* it was.
CoreFailureSurfaced ==
  [][(ret'.status # 200 /\ (ret' # ret \/ nFinished' # nFinished)) =>
       /\ ret'.threw /\ ret'.error # ""
       /\ sink' = sink
       /\ bPc = "scraping" =>
            /\ results'.failed = Append(results.failed, [name |-> ret'.name, error |-> ret'.error])
            /\ results'.success = results.success]_vars

\* a batch scrape failed on the metadata while the sink held a profile
CoreFailureSurfacedWitness ==
  /\ bPc \in {"delay", "done"} /\ ret.status = 404 /\ ret.threw
  /\ Len(sink) = 1
  /\ Len(results.failed) = 1 /\ results.failed[1].name = ret.name

\* the answers with every failed optional request replaced by an empty list
Degraded(up) ==
  [up EXCEPT !.rules = IF @.ok THEN @ ELSE Fulfilled(<<>>),
             !.flairs = IF @.ok THEN @ ELSE Fulfilled(<<>>),
             !.hot = IF @.ok THEN @ ELSE Fulfilled(<<>>),
             !.top = IF @.ok THEN @ ELSE Fulfilled(<<>>)]

\* the profile is produced and written
Persisted(out) ==
  /\ ~out.threw /\ out.data # NoData
  /\ Len(out.sink) = 1 /\ out.sink[1].name = out.data[1].name

\* the fields that depend on a failed request are at their defaults
DefaultsWhereFailed(up, data) ==
  /\ ~up.hot.ok => AllZero(data)
  /\ ~up.top.ok => data.best_posting_times = <<>>

\* C7: when the core metadata fetch succeeds, no failure of the rules, flair, hot-post or
\* top-post request, in any combination, makes scrapeSubreddit fail: the profile is
\* produced and persisted, it is the profile an empty list in place of the failed input
\* gives, and the fields depending on the failed input are at their defaults.
OptionalFailuresDegrade ==
  (arg.fn = "scrapeSubreddit" /\ srvOut.called /\ arg.up.about.status = 200 /\ arg.up.save) =>
    /\ Persisted(srvOut.v) /\ Persisted(cliOut.v)
    /\ srvOut.v = ServerScrapeSubreddit(arg.name, Degraded(arg.up), <<>>, tz)
    /\ cliOut.v = ClientScrapeSubreddit(arg.name, Degraded(arg.up), <<>>, tz)
    /\ ~arg.up.flairs.ok => srvOut.v.data[1].required_flairs = <<>>
    /\ DefaultsWhereFailed(arg.up, srvOut.v.data[1])
    /\ DefaultsWhereFailed(arg.up, cliOut.v.data[1])

\* positions of the tags one of whose keywords occurs in the lower-cased text
TagsHit(subreddit) ==
  LET text == toLowerCase(subreddit.display_name \o <<" ">> \o subreddit.public_description)
  IN {k \in 1..Len(nicheKeywords) :
        \E j \in 1..Len(nicheKeywords[k].keywords) : includes(text, nicheKeywords[k].keywords[j])}

TagsAsClaimed(subreddit, tags) ==
  /\ Len(tags) > 0
  /\ TagsHit(subreddit) = {} => tags = <<"general">>
  /\ TagsHit(subreddit) # {} =>
       /\ {tags[i] : i \in 1..Len(tags)} = {nicheKeywords[k].tag : k \in TagsHit(subreddit)}
       /\ Len(tags) = Cardinality(TagsHit(subreddit))
  /\ (\E i \in 1..Len(tags) : tags[i] = "general") => Len(tags) = 1

\* C8: inferNicheTags never returns an empty list: it returns the tags one of whose keywords
\* occurs as a substring of the lower-cased display name and description, exactly
\* ["general"] when no keyword occurs, and "general" never beside another tag.
NicheTagsNeverEmpty ==
  (arg.fn = "inferNicheTags" /\ srvOut.called) =>
    TagsAsClaimed(arg.subreddit, srvOut.v) /\ TagsAsClaimed(arg.subreddit, cliOut.v)

\* the name TinyFeet, whose capitals hide two keywords, gave feet and petite
NicheTagsNeverEmptyWitness ==
  /\ arg.fn = "inferNicheTags" /\ srvOut.called
  /\ arg.subreddit.display_name = <<"T", "i", "n", "y", "F", "e", "e", "t">> /\ arg.subreddit.public_description = <<>>
  /\ srvOut.v = <<"feet", "petite">> /\ cliOut.v = <<"feet", "petite">>

\* the days, in the zone of the process, on which a post of the listing was created
DaysOf(listing, zone) ==
  IF listing.ok
  THEN {DayNames[getDay(listing.v[k].created_utc, zone) + 1] : k \in 1..Len(listing.v)}
  ELSE {}

TimesAsClaimed(listing, zone, times) ==
  /\ \A k \in 1..Len(times) :
       /\ Len(times[k].value) \in 1..3
       /\ \A i \in 1..Len(times[k].value) : times[k].value[i] \in 0..23
       /\ \A i, j \in 1..Len(times[k].value) : times[k].value[i] = times[k].value[j] => i = j
  /\ {times[k].key : k \in 1..Len(times)} = DaysOf(listing, zone)
  /\ Len(times) = Cardinality(DaysOf(listing, zone))

\* C9: every day present in the best posting times maps to between 1 and 3 distinct hours of
\* 0..23, and a day is present exactly when a post of the sample was created on it; an
\* empty or failed sample gives the empty mapping.
BestPostingTimesShape ==
  (arg.fn = "analyzeBestPostingTimes" /\ srvOut.called) =>
    TimesAsClaimed(arg.listing, tz, srvOut.v) /\ TimesAsClaimed(arg.listing, tz, cliOut.v)

\* four posts in four hours of one day: the three best hours are kept
BestPostingTimesShapeWitness ==
  /\ arg.fn = "analyzeBestPostingTimes" /\ srvOut.called /\ tz = 0
  /\ arg.listing = Fulfilled(<<Post(10, 2, 0), Post(21, 5, 3600), Post(5, 0, 7200), Post(8, 1, 10800)>>)
  /\ srvOut.v = <<[key |-> "thursday", value |-> <<1, 0, 3>>]>>
  /\ cliOut.v = srvOut.v

\* the fields both parseRules derive
SameRequirements(a, b) ==
  /\ a.min_karma = b.min_karma
  /\ a.min_account_age_days = b.min_account_age_days
  /\ a.requires_verification = b.requires_verification
  /\ a.allows_links_in_post = b.allows_links_in_post
  /\ a.allows_links_in_comments = b.allows_links_in_comments
  /\ a.allows_links_in_profile_only = b.allows_links_in_profile_only
  /\ a.posting_frequency_limit = b.posting_frequency_limit
  /\ a.posting_frequency_hours = b.posting_frequency_hours
  /\ a.rules_summary = b.rules_summary

SameEngagement(a, b) ==
  /\ a.avg_upvotes = b.avg_upvotes
  /\ a.median_upvotes = b.median_upvotes
  /\ a.avg_comments = b.avg_comments
  /\ a.engagement_score = b.engagement_score

\* C10: the server-side and the browser-side implementation derive equal values: for every
\* rules text, flair list, post sample and subreddit, the fields both derive (min_karma,
\* min_account_age_days, requires_verification, the link flags, posting frequency,
\* rules_summary, the engagement aggregates, best_posting_times, niche_tags) are equal.
ImplementationsAgree ==
  srvOut.called =>
    CASE arg.fn = "parseRules" -> SameRequirements(srvOut.v, cliOut.v)
      [] arg.fn = "calculateEngagement" -> SameEngagement(srvOut.v, cliOut.v)
      [] arg.fn = "analyzeBestPostingTimes" -> srvOut.v = cliOut.v
      [] arg.fn = "inferNicheTags" -> srvOut.v = cliOut.v
      [] arg.fn = "scrapeSubreddit" ->
           (~srvOut.v.threw /\ ~cliOut.v.threw) =>
             /\ SameRequirements(srvOut.v.data[1], cliOut.v.data[1])
             /\ SameEngagement(srvOut.v.data[1], cliOut.v.data[1])
             /\ srvOut.v.data[1].best_posting_times = cliOut.v.data[1].best_posting_times
             /\ srvOut.v.data[1].niche_tags = cliOut.v.data[1].niche_tags

\* C11: profile derivation is a pure function of its fetched inputs: the result of a
\* derivation is the result the same inputs give in any local time zone of the process
\* that runs it.
DerivationIsPure ==
  srvOut.called =>
    \A zone \in TimeZones :
      CASE arg.fn = "analyzeBestPostingTimes" ->
             /\ srvOut.v = ServerAnalyzeBestPostingTimes(arg.listing, zone)
             /\ cliOut.v = ClientAnalyzeBestPostingTimes(getTopPosts(arg.listing), zone)
        [] arg.fn = "scrapeSubreddit" ->
             /\ srvOut.v.data = ServerScrapeSubreddit(arg.name, arg.up, <<>>, zone).data
             /\ cliOut.v.data = ClientScrapeSubreddit(arg.name, arg.up, <<>>, zone).data
        [] OTHER -> TRUE

\* the summary the requirements that are set ask for: a line for each of them, in the order
\* karma, account age, verification, posting limit, link restriction, flair requirement
SummaryOfSet(requirements, flairs) ==
  (IF requirements.min_karma # Null
     THEN << <<"Need ", requirements.min_karma[1], " karma">> >> ELSE <<>>)
  \o (IF requirements.min_account_age_days # Null
     THEN << <<"Account must be ", requirements.min_account_age_days[1], "+ days old">> >> ELSE <<>>)
  \o (IF requirements.requires_verification THEN << <<"Verification required">> >> ELSE <<>>)
  \o (IF requirements.posting_frequency_limit # Null
     THEN << <<"Posting limit: ", requirements.posting_frequency_limit[1]>> >> ELSE <<>>)
  \o (IF ~requirements.allows_links_in_post THEN << <<"No links in posts (profile only)">> >> ELSE <<>>)
  \o (IF Len(flairs) > 0 THEN << <<"Must use flair">> >> ELSE <<>>)

SummaryAsClaimed(requirements, flairs) ==
  requirements.rules_summary =
    IF SummaryOfSet(requirements, flairs) = <<>> THEN << <<"No special requirements found">> >>
    ELSE SummaryOfSet(requirements, flairs)

\* C12: rules_summary holds one line for each requirement that is set (min_karma and
\* min_account_age_days not null, requires_verification true, a posting limit, links in
\* posts disallowed, required flairs) and none for one that is not set, in that order; it
\* is "No special requirements found" exactly when no requirement is set.
SummaryListsSetRequirements ==
  (arg.fn = "parseRules" /\ srvOut.called) =>
    /\ SummaryAsClaimed(srvOut.v, srvOut.v.required_flairs)
    /\ SummaryAsClaimed(cliOut.v, <<>>)

\* the posting frequency fields the claim asks of a rules text
FrequencyAsClaimed(rulesText, requirements) ==
  LET m == Match(freqPattern, rulesText)
      perDay == toLowerCase(m.g[3][1]) = <<"d", "a", "y">>
      hours == IF perDay THEN 24 ELSE IF m.g[2] # Null THEN parseInt(m.g[2][1]) ELSE 1
  IN IF m.ok
     THEN /\ requirements.posting_frequency_hours = Some(hours)
          /\ requirements.posting_frequency_limit = Some(<<"1 per ", hours, " hours">>)
     ELSE /\ requirements.posting_frequency_hours = Null
          /\ requirements.posting_frequency_limit = Null

\* C13: when the rules text matches "N post(s)/submission(s) per [M] hour|day",
\* posting_frequency_hours is 24 for the unit day whatever M is, M for the unit hour with M
\* present and 1 for the unit hour without M, and posting_frequency_limit is
\* "1 per {hours} hours" of the same value; when the text does not match, both are null.
PostingFrequencyParsed ==
  (arg.fn = "parseRules" /\ srvOut.called) =>
    /\ FrequencyAsClaimed(arg.rulesText, srvOut.v)
    /\ FrequencyAsClaimed(arg.rulesText, cliOut.v)

\* "3 posts per 2 days" gave 24 hours, the 2 notwithstanding
PostingFrequencyParsedWitness ==
  /\ arg.fn = "parseRules" /\ srvOut.called
  /\ arg.rulesText = <<"3", " ", "p", "o", "s", "t", "s", " ", "p", "e", "r", " ", "2", " ", "d", "a", "y", "s">>
  /\ srvOut.v.posting_frequency_hours = Some(24)
  /\ cliOut.v.posting_frequency_limit = Some(<<"1 per ", 24, " hours">>)

\* the link flags the claim asks of a rules text
LinksAsClaimed(rulesText, requirements) ==
  LET noLinks == Test(noLinksPattern, rulesText)
      profileLinks == Test(profileLinksPattern, rulesText)
  IN /\ requirements.allows_links_in_post = ~(noLinks \/ profileLinks)
     /\ requirements.allows_links_in_comments = ~(noLinks \/ profileLinks)
     /\ (requirements.allows_links_in_profile_only = Some(TRUE)) = profileLinks
     /\ requirements.allows_links_in_profile_only \in {Some(TRUE), Null}

\* C14: the two link checks are independent: allows_links_in_post and
\* allows_links_in_comments are both false exactly when the text matches the
\* "no [external] link(s)" pattern or the "link(s) [only] [in] profile" pattern, and
\* allows_links_in_profile_only is true exactly when the second matches, whether or not the
\* first matched.
LinkChecksIndependent ==
  (arg.fn = "parseRules" /\ srvOut.called) =>
    /\ LinksAsClaimed(arg.rulesText, srvOut.v)
    /\ LinksAsClaimed(arg.rulesText, cliOut.v)

\* a text that matches both patterns: links are disallowed and profile-only is set
LinkChecksIndependentWitness ==
  /\ arg.fn = "parseRules" /\ srvOut.called
  /\ arg.rulesText = <<"N", "o", " ", "l", "i", "n", "k", "s">> \o <<"l", "i", "n", "k", "s", " ", "i", "n", " ", "p", "r", "o", "f", "i", "l", "e">>
  /\ ~srvOut.v.allows_links_in_post /\ ~srvOut.v.allows_links_in_comments
  /\ srvOut.v.allows_links_in_profile_only = Some(TRUE)
  /\ cliOut.v.allows_links_in_profile_only = Some(TRUE)

\* the scores of a sample
ScoresOf(posts) == [k \in 1..Len(posts) |-> posts[k].score]

\* m is the element at index floor(n/2) of the n scores in ascending order, and avg their mean
MedianAsClaimed(scores, engagement) ==
  LET n == Len(scores)
      m == engagement.median_upvotes
      below == Cardinality({k \in 1..n : scores[k] * m.d < m.n})
      upTo == Cardinality({k \in 1..n : scores[k] * m.d <= m.n})
  IN /\ m.kind = "number" /\ m.d = 1
     /\ \E k \in 1..n : scores[k] = m.n
     /\ below <= n \div 2 /\ n \div 2 < upTo
     /\ engagement.avg_upvotes.kind = "number"
     /\ engagement.avg_upvotes.n * n = Sum(scores) * engagement.avg_upvotes.d

\* C15: for a post sample of n > 0 scores, median_upvotes is the element at index
\* floor(n/2) of the scores sorted ascending (the upper of the two middle elements when n is
\* even), and avg_upvotes is the mean of the same n scores.
MedianIsUpperMiddle ==
  (arg.fn = "calculateEngagement" /\ srvOut.called /\ arg.listing.ok /\ arg.listing.v # <<>>) =>
    /\ MedianAsClaimed(ScoresOf(arg.listing.v), srvOut.v)
    /\ MedianAsClaimed(ScoresOf(arg.listing.v), cliOut.v)

\* the scores 10, 21, 5, 8: the median is 10, not 8 or 9, and the mean is 11
MedianIsUpperMiddleWitness ==
  /\ arg.fn = "calculateEngagement" /\ srvOut.called
  /\ arg.listing = Fulfilled(<<Post(10, 2, 0), Post(21, 5, 3600), Post(5, 0, 7200), Post(8, 1, 10800)>>)
  /\ srvOut.v.median_upvotes = Number(10, 1) /\ cliOut.v.median_upvotes = Number(10, 1)
  /\ srvOut.v.avg_upvotes = Number(11, 1) /\ cliOut.v.avg_upvotes = Number(11, 1)

\* score = 0.7 * (mean of the scores) + 0.3 * (mean of the comment counts), the means of an
\* empty sample being 0
ScoreAsClaimed(posts, score) ==
  LET n == Len(posts)
      upvotes == Sum([k \in 1..n |-> posts[k].score])
      comments == Sum([k \in 1..n |-> posts[k].num_comments])
  IN /\ score.kind = "number"
     /\ IF n = 0 THEN score.n = 0
        ELSE 10 * n * score.n = (7 * upvotes + 3 * comments) * score.d

\* C16: for all post samples, engagement_score is 0.7 * avg_upvotes + 0.3 * avg_comments,
\* the two averages being the arithmetic means of the scores and the comment counts.
EngagementScoreWeighted ==
  (arg.fn = "calculateEngagement" /\ srvOut.called) =>
    LET posts == IF arg.listing.ok THEN arg.listing.v ELSE <<>>
    IN /\ ScoreAsClaimed(posts, srvOut.v.engagement_score)
       /\ ScoreAsClaimed(posts, cliOut.v.engagement_score)

\* C17: a data operation that runs while the backend cannot be reached, whenever the
\* backend became unreachable, is served from the local database and does not fail
FallsBackWhenUnreachable ==
  opOut.op # "none" /\ ~opOut.reachable => opOut.r.ok /\ opOut.servedBy = "local"

\* C18: any two HTTP requests the public Reddit client sends start at least requestDelay
\* apart, however the calls of fetchRedditJson interleave
RequestsSpaced ==
  \A i, j \in 1..Len(sent) : i < j => sent[j] - sent[i] >= requestDelay

\* the entries of a tracked list for one subreddit and one account
BackendEntries(rows, name, account) ==
  SelectSeq(rows, LAMBDA row : row.subreddit_id = name /\ row.reddit_account_id = account)
LocalEntries(entries, name, account) ==
  SelectSeq(entries, LAMBDA e : e.subreddit_name = name /\ e.account_id = account)
\* the entries for the pair of the latest trackSubreddit call, in the list of the mode that served it
EntriesOfLatest ==
  IF opOut.servedBy = "backend"
  THEN BackendEntries(GetTracked(user_subreddits, UserId, TRUE).body, opOut.args[1].name, opOut.args[1].account)
  ELSE LocalEntries(tracked_subreddits, opOut.args[1].name, opOut.args[1].account)
\* C19: after a trackSubreddit call that succeeded, in backend mode and in client-side mode
\* alike, the tracked list holds a single entry for the (subreddit, account) pair of the
\* call, and it carries the notes of that call
TrackingSameInBothModes ==
  opOut.op = "trackSubreddit" /\ opOut.r.ok =>
    /\ Len(EntriesOfLatest) = 1
    /\ opOut.args[1].notes # Null => EntriesOfLatest[1].notes = opOut.args[1].notes

\* an object sent to the client has a value under access_token or refresh_token
CarriesToken(obj) == \E k \in TokenKeys : k \in DOMAIN obj /\ obj[k] # NoValue
\* C20: no response of GET /api/accounts, GET /api/accounts/:id,
\* POST /api/accounts/:id/check-health or GET /api/accounts/:id/stats carries a value for
\* access_token or refresh_token, whatever the request and the stored accounts
TokensNeverSent ==
  CASE apiResponse.route = "GET /" /\ apiResponse.status = 200 ->
         \A i \in 1..Len(apiResponse.body) : ~CarriesToken(apiResponse.body[i])
    [] apiResponse.route = "GET /:id/stats" /\ apiResponse.status = 200 ->
         ~CarriesToken(apiResponse.body) /\ ~CarriesToken(apiResponse.body.account[1])
    [] OTHER -> ~CarriesToken(apiResponse.body)
\* the list of a user with two stored accounts, both holding tokens, was sent
TokensNeverSentWitness ==
  /\ apiResponse.route = "GET /" /\ apiResponse.status = 200
  /\ Len(apiResponse.body) = 2
  /\ \A i \in 1..Len(reddit_accounts) :
       /\ reddit_accounts[i].access_token # NoValue
       /\ reddit_accounts[i].refresh_token # NoValue

\* C21: with no Reddit account connected and a non-empty subreddit name entered, pressing
\* Scrape starts a scrape (dataService.scrapeSubreddit is called), in every state after
\* mounting
ScrapeNeedsNoAuthentication ==
  /\ component.pressed # Null
  /\ component.pressed[1].name # ""
  /\ localStorage.reddit_access_token = Null /\ local_accounts = <<>>
  => component.pressed[1].started

\* C22: in client-side mode, whenever an account is stored, exactly one stored account has
\* is_primary = true, and it is the account that was added first
FirstAccountIsPrimary ==
  local_accounts # <<>> =>
    /\ local_accounts[1].is_primary
    /\ \A i \in 2..Len(local_accounts) : ~local_accounts[i].is_primary

\* C24: handleCallback stores a token only if a state generated by startAuth is pending and
\* the callback's state parameter equals it; in every other case it throws and leaves the
\* token in memory and in localStorage unchanged
CallbackOnlyForOwnFlow ==
  authOut.op = "handleCallback" =>
    \/ authOut.savedState # Null /\ authOut.params.state = authOut.savedState
    \/ /\ ~authOut.r.ok
       /\ redditClient.accessToken = authOut.before.memory
       /\ localStorage.reddit_access_token = authOut.before.stored

\* the rows a cancel request of userId for post id may touch: the owner's, still scheduled
Cancellable(id, userId) ==
  { i \in 1..Len(scheduled_posts) :
      /\ scheduled_posts[i].id = id
      /\ userId # Null /\ scheduled_posts[i].user_id = userId[1]
      /\ scheduled_posts[i].status = "scheduled" }
OwnRouteServes ==
  /\ (request.method = "GET" /\ request.path = <<"tracked">>) =>
       /\ apiResponse.route = "GET /tracked"
       /\ apiResponse.status = 200 =>
            apiResponse.body = SelectSeq(user_subreddits, LAMBDA row : row.user_id = request.userId)
  /\ (request.method = "GET" /\ request.path = <<"search">>) =>
       apiResponse.route = "GET /search"

\* C26: a list request that the database carries out is answered with status 200 and a
\* total that is the number of subreddits passing all the filters the page was
\* selected with, whatever limit and offset are
ListTotalCountsFiltered ==
  (request.method = "GET" /\ request.path = <<>> /\ request.queryOk) =>
    /\ apiResponse.status = 200
    /\ apiResponse.body.total =
         Some(Cardinality({ i \in 1..Len(subreddits) :
                \A f \in Applied(request.query) : Holds(f, request.query, subreddits[i]) }))
====
